---- MODULE Spec2Model ----
(***************************************************************************)
(* Omni-CLI: the bootstrap protocol of commands/init_env.rs                *)
(* (bootstrap_orchestrator, wait_for_process_completion), its two watch    *)
(* commands (restart_service with wait_for_service_restart, trigger_backup *)
(* with wait_for_backup_completion), and the deploy flow of commands/up.rs *)
(* (deploy_interactive, create_tarball, upload_tarball), with              *)
(* ApiClient::request of api_client.rs underneath.                         *)
(*                                                                         *)
(* SpecBoot runs the bootstrap protocol against an arbitrary status feed;  *)
(* SpecWatch runs a service restart or a backup trigger; SpecPolling runs  *)
(* either, and FairPolling adds the fairness under which the loops end;    *)
(* SpecDeploy runs one deploy command over an arbitrary small project tree *)
(* (or one just above the large-project threshold) and arbitrary server    *)
(* replies.                                                                *)
(***************************************************************************)
EXTENDS Integers, Sequences, FiniteSets, TLC

(***************************************************************************)
(* Bounds of the model.                                                    *)
(***************************************************************************)
\* hosts in one status snapshot
MaxHosts == 2
\* services in one host's service listing
MaxServices == 2
\* runs of equal-kind entries in a small project tree, and entries per run
MaxRuns == 2
MaxRunLen == 1
\* quota values 0..MaxQuota are tried besides the ones around the threshold
MaxQuota == 3
\* u64 / i64 are scaled down to words of CountBits bits
CountBits == 16
MaxErrorLines == 2
UsizeBits == 16

(***************************************************************************)
(* Program constants.                                                      *)
(***************************************************************************)
MAX_ATTEMPTS == 120
\* MAX_ATTEMPTS of wait_for_service_restart and of wait_for_backup_completion
MAX_ATTEMPTS_RESTART == 30
MAX_ATTEMPTS_BACKUP == 60
LARGE_PROJECT_THRESHOLD == 5000

(***************************************************************************)
(* Text.  A String is a sequence of characters, so that str::contains is   *)
(* a real substring search (case-sensitive, any position).                 *)
(***************************************************************************)
Contains(hay, needle) ==
    \E i \in 0..(Len(hay) - Len(needle)) :
        \A j \in 1..Len(needle) : hay[i + j] = needle[j]

TxtNetworkComplete ==
    <<"N", "e", "t", "w", "o", "r", "k", " ", "c", "o", "n", "f", "i", "g", "u",
      "r", "a", "t", "i", "o", "n", " ", "c", "o", "m", "p", "l", "e", "t", "e">>
TxtNetwork == <<"n", "e", "t", "w", "o", "r", "k">>
\* current_step texts a server may send
StepNetworkDone == TxtNetworkComplete
StepConfiguringNetwork ==
    <<"c", "o", "n", "f", "i", "g", "u", "r", "i", "n", "g", " ",
      "n", "e", "t", "w", "o", "r", "k">>
StepInstalling ==
    <<"I", "n", "s", "t", "a", "l", "l", "i", "n", "g", " ",
      "p", "a", "c", "k", "a", "g", "e", "s">>
StepTexts == {StepNetworkDone, StepConfiguringNetwork, StepInstalling}
\* the words the progress lines of monitoring and backups look for
TxtMonitoring == <<"m", "o", "n", "i", "t", "o", "r", "i", "n", "g">>
TxtBackup == <<"b", "a", "c", "k", "u", "p">>

(***************************************************************************)
(* Status payloads: ServiceStatus, HostDeploymentStatus, ApiResponse.      *)
(***************************************************************************)
ServiceStatus(n, s) == [name |-> n, status |-> s]

ServiceLists ==
    {<<>>}
    \cup {<<ServiceStatus(n, s)>> :
            n \in {"metrics-collector", "backup-manager"},
            s \in {"Running", "Stopped"}}
    \cup {<<ServiceStatus("backup-manager", "Stopped"),
            ServiceStatus("backup-manager", "Running")>>}

HostDeploymentStatus(st, step, done, svcs) ==
    [status |-> st, current_step |-> step, completed |-> done, services |-> svcs]

\* The host records a snapshot is built from: hosts without services at
\* each step text, completed or not; every service list on a host still
\* being installed; and a host in error.
Hosts ==
    {HostDeploymentStatus("completed", s, TRUE, <<>>) :
        s \in {StepConfiguringNetwork, StepInstalling}}
    \cup {HostDeploymentStatus("in_progress", s, FALSE, <<>>) : s \in StepTexts}
    \cup {HostDeploymentStatus("in_progress", StepInstalling, FALSE, l) :
            l \in ServiceLists}
    \cup {HostDeploymentStatus("error", StepInstalling, FALSE, <<>>)}

\* one record for each way a host stands to the phases' conditions: network
\* configured, metrics-collector running, backup-manager stopped, in error
CoreHosts ==
    {HostDeploymentStatus("completed", StepConfiguringNetwork, TRUE, <<>>),
     HostDeploymentStatus("in_progress", StepInstalling, FALSE,
                          <<ServiceStatus("metrics-collector", "Running")>>),
     HostDeploymentStatus("in_progress", StepInstalling, FALSE,
                          <<ServiceStatus("backup-manager", "Stopped")>>),
     HostDeploymentStatus("error", StepInstalling, FALSE, <<>>)}

\* the host lists of up to MaxHosts records: every list of one or two
\* records, and the longer lists over CoreHosts
Snapshots ==
    {s \in UNION {[1..n -> Hosts] : n \in 0..MaxHosts} :
        Len(s) > 2 => \A i \in DOMAIN s : s[i] \in CoreHosts}

\* the `data` member of the envelope: absent, a list of host records, or
\* JSON of another shape
DataValues ==
    {[kind |-> "none"], [kind |-> "other"]}
    \cup {[kind |-> "hosts", hosts |-> h] : h \in Snapshots}

ApiResponse(st, d) == [kind |-> "envelope", status |-> st, data |-> d]

\* every data value under a status still in progress; under "completed",
\* where the loops stop before they look at the hosts, the data values
\* with at most one host
Envelopes ==
    {ApiResponse("in_progress", d) : d \in DataValues}
    \cup {ApiResponse("completed", d) :
            d \in {x \in DataValues : x.kind = "hosts" => Len(x.hosts) <= 1}}

\* what the server can answer to one request: nothing (transport failure),
\* or a status code with a body.  Every body is tried under 200; 201 and 202
\* carry the bodies without data; 204 and 500 carry no envelope, and 204
\* also a "completed" envelope without data.
SuccessBodies == Envelopes \cup {[kind |-> "garbage"]}
HttpReplies ==
    {[kind |-> "transport_error"]}
    \cup {[kind |-> "http", code |-> 200, body |-> b] : b \in SuccessBodies}
    \cup {[kind |-> "http", code |-> c, body |-> b] :
            c \in {201, 202},
            b \in {x \in SuccessBodies : x.kind = "envelope" => x.data.kind = "none"}}
    \cup {[kind |-> "http", code |-> c, body |-> [kind |-> "garbage"]] :
            c \in {204, 500}}
    \cup {[kind |-> "http", code |-> 204, body |-> b] :
            b \in {x \in Envelopes : x.status = "completed" /\ x.data.kind = "none"}}

\* replies to a status request of the Init loop, which reads the hosts'
\* status and nothing else of them: snapshots over one host record per
\* status
InitHosts ==
    {HostDeploymentStatus("completed", StepInstalling, TRUE, <<>>),
     HostDeploymentStatus("in_progress", StepInstalling, FALSE, <<>>),
     HostDeploymentStatus("error", StepInstalling, FALSE, <<>>)}
InitReplies ==
    {r \in HttpReplies :
        (r.kind = "http" /\ r.body.kind = "envelope" /\ r.body.data.kind = "hosts")
            => \A i \in DOMAIN r.body.data.hosts : r.body.data.hosts[i] \in InitHosts}

\* replies to a triggering POST: the envelope's data plays no role there
TriggerReplies ==
    {r \in HttpReplies :
        r.kind = "http" /\ r.body.kind = "envelope" => r.body.data.kind = "none"}

(***************************************************************************)
(* ApiClient::request: Ok(body) for 200, 201 and 202 with a body that      *)
(* deserializes, Err otherwise.                                            *)
(***************************************************************************)
Err == [ok |-> FALSE]
Ok(v) == [ok |-> TRUE, value |-> v]

\* `StatusCode::OK | StatusCode::CREATED | StatusCode::ACCEPTED =>`
SuccessStatusAny2xx(code) == code \in 200..299
SuccessStatus(code) == code \in {200, 201, 202}

Request(reply) ==
    IF reply.kind = "transport_error" THEN Err
    ELSE IF SuccessStatus(reply.code)
         THEN IF reply.body.kind = "envelope" THEN Ok(reply.body) ELSE Err
         ELSE Err

(***************************************************************************)
(* wait_for_process_completion: the completion check applied to one poll.  *)
(***************************************************************************)
HasService(h, n) == \E i \in DOMAIN h.services : h.services[i].name = n
HasRunning(h, n) ==
    \E i \in DOMAIN h.services :
        h.services[i].name = n /\ h.services[i].status = "Running"

\* the match on process_type over a parsed Vec<HostDeploymentStatus>
NetworkCompleteAny(hosts) ==
    \E i \in DOMAIN hosts :
        \/ Contains(hosts[i].current_step, TxtNetworkComplete)
        \/ Contains(hosts[i].current_step, TxtNetwork) /\ hosts[i].completed
NetworkComplete(hosts) ==
    \A i \in DOMAIN hosts :
        \/ Contains(hosts[i].current_step, TxtNetworkComplete)
        \/ Contains(hosts[i].current_step, TxtNetwork) /\ hosts[i].completed

MonitoringReadyListed(hosts) ==
    \A i \in DOMAIN hosts : HasService(hosts[i], "metrics-collector")
MonitoringReady(hosts) ==
    \A i \in DOMAIN hosts : HasRunning(hosts[i], "metrics-collector")

BackupsReadyStrict(hosts) ==
    \A i \in DOMAIN hosts : HasRunning(hosts[i], "backup-manager")
BackupsReady(hosts) ==
    \A i \in DOMAIN hosts :
        HasService(hosts[i], "backup-manager") => HasRunning(hosts[i], "backup-manager")

ProcessCompleteNonEmpty(ptype, hosts) ==
    /\ hosts # <<>>
    /\ CASE ptype = "network" -> NetworkComplete(hosts)
         [] ptype = "monitoring" -> MonitoringReady(hosts)
         [] ptype = "backups" -> BackupsReady(hosts)
         [] OTHER -> \A i \in DOMAIN hosts : hosts[i].completed
ProcessComplete(ptype, hosts) ==
    CASE ptype = "network" -> NetworkComplete(hosts)
      [] ptype = "monitoring" -> MonitoringReady(hosts)
      [] ptype = "backups" -> BackupsReady(hosts)
      [] OTHER -> \A i \in DOMAIN hosts : hosts[i].completed

\* `if response.status == "completed"`, ahead of the match on process_type
TopLevelCompletedNever(response) == FALSE
TopLevelCompleted(response) == response.status = "completed"

\* the body of the loop after the GET returned `result`: TRUE when it sets
\* complete and breaks
PollCompletesOnHostError(ptype, result) ==
    /\ result.ok
    /\ \/ result.value.status = "completed"
       \/ /\ result.value.data.kind = "hosts"
          /\ \/ ProcessComplete(ptype, result.value.data.hosts)
             \/ \E i \in DOMAIN result.value.data.hosts :
                    result.value.data.hosts[i].status = "error"
PollCompletes(ptype, result) ==
    /\ result.ok
    /\ \/ TopLevelCompleted(result.value)
       \/ /\ result.value.data.kind = "hosts"
          /\ ProcessComplete(ptype, result.value.data.hosts)

\* the loop condition
LoopContinuesInclusive(complete_, attempts_) ==
    ~complete_ /\ attempts_ <= MAX_ATTEMPTS
LoopContinues(complete_, attempts_) ==
    ~complete_ /\ attempts_ < MAX_ATTEMPTS

\* what one turn of the loop body prints for `result`: the error line, a
\* completion line, a progress line, or nothing
Printed(ptype, result) ==
    IF ~result.ok THEN "error"
    ELSE IF TopLevelCompleted(result.value) THEN "completed"
    ELSE IF result.value.data.kind # "hosts" THEN "none"
    ELSE IF ProcessComplete(ptype, result.value.data.hosts) THEN "completed"
    ELSE LET hosts == result.value.data.hosts IN
         CASE ptype = "network" ->
                 IF hosts # <<>> THEN "progress" ELSE "none"
           [] ptype = "monitoring" ->
                 IF \E i \in DOMAIN hosts : Contains(hosts[i].current_step, TxtMonitoring)
                 THEN "progress" ELSE "none"
           [] ptype = "backups" ->
                 IF \E i \in DOMAIN hosts : Contains(hosts[i].current_step, TxtBackup)
                 THEN "progress" ELSE "none"
           [] OTHER -> "none"

(***************************************************************************)
(* bootstrap_orchestrator, STEP 2: the body of the Init status loop.       *)
(***************************************************************************)
\* TRUE when the turn sets all_complete
InitPollCompletesOnHosts(result) ==
    /\ result.ok
    /\ \/ result.value.status = "completed"
       \/ /\ result.value.data.kind = "hosts"
          /\ \A i \in DOMAIN result.value.data.hosts :
                result.value.data.hosts[i].completed
InitPollCompletes(result) ==
    result.ok /\ result.value.status = "completed"

\* `prev_lines = host_statuses.len() + 2`
TrackedLinesHostsOnly(hosts) == Len(hosts)
TrackedLines(hosts) == Len(hosts) + 2

\* `if prev_lines > 0 { print!("\x1B[{}A\x1B[J", prev_lines) }`: the lines
\* the cursor goes up and clears
Erases(prev) == IF prev > 0 THEN prev ELSE 0

\* what the turn prints: the error lines, the status block, or nothing
InitPrinted(result) ==
    IF ~result.ok THEN "error"
    ELSE IF result.value.status = "completed" THEN "none"
    ELSE IF result.value.data.kind = "hosts" THEN "status_block"
    ELSE "none"

(***************************************************************************)
(* State.                                                                  *)
(***************************************************************************)
VARIABLES
    \* -- bootstrap_orchestrator --
    config,          \* CloudConfig: enable_monitoring, enable_backups
    bphase,          \* the phase the orchestrator is at
    bpc,             \* its position within the phase
    bresult,         \* "none", "Ok", "Err": what bootstrap_orchestrator returned
    all_complete,    \* local of the Init status loop
    ipc,             \* position within the Init status loop
    outstanding,     \* requests sent and not yet answered
    triggerLog,      \* the triggering POSTs sent, in order
    pollingDone,     \* phases whose polling loop has terminated
    \* -- wait_for_process_completion --
    wpc,             \* position within the function
    process_type,    \* its argument
    complete,        \* local
    attempts,        \* local
    wresult,         \* "none", "Ok": what the last call returned
    warned,          \* the timeout warning was printed by the last call
    \* -- what the status feed did during the current call --
    statusRequests,  \* status requests issued by the call
    firstMet,        \* attempt whose reply first met the completion check, or 0
    convergedAt,     \* attempt at which complete was set, or 0
    allDoneNow       \* the reply just handled listed hosts, all of them completed

bootVars == <<config, bphase, bpc, bresult, all_complete, ipc, outstanding,
              triggerLog, pollingDone>>
waitVars == <<wpc, process_type, complete, attempts, wresult, warned>>
feedVars == <<statusRequests, firstMet, convergedAt, allDoneNow>>

Phases == <<"init", "network", "monitoring", "backups">>

VARIABLES
    \* -- the protocol as the server and the terminal see it --
    triggerOk,         \* phases whose triggering POST was answered with success
    triggerFailed,     \* the phase whose triggering POST failed, else "none"
    polled,            \* phases for which a status request was issued
    initPolls,         \* status requests of the running Init loop, counted
                       \* up to InitPollsShown
    initCompletedSeen, \* an Init poll was answered with status "completed"
    handled,           \* the reply the loop body has just handled, as the
                       \* server sent it; Unhandled at any other time
    printed            \* what the loop body printed for it

VARIABLES
    \* -- the status block of the Init loop --
    prev_lines,        \* local of bootstrap_orchestrator: the lines to erase
    erased,            \* lines the render of this turn erased before it printed
    shown,             \* lines the latest render printed, 0 before the first
    shownBefore,       \* lines the render before this turn's render printed
    errorLines,        \* lines failed polls printed below the latest block,
                       \* counted up to MaxErrorLines
    stale              \* lines printed since the start of the block before,
                       \* that this turn's render left on the screen

renderVars == <<prev_lines, erased, shown, shownBefore, errorLines, stale>>

VARIABLES
    timedOut,          \* phases whose polling loop ended with its budget used up
    offStatus          \* the poll just handled was answered with a well-formed
                       \* envelope under a status other than 200, 201, 202

probeVars == <<triggerOk, triggerFailed, polled, initPolls, initCompletedSeen,
               handled, printed, renderVars, timedOut, offStatus>>

VARIABLES
    \* -- deploy_interactive, create_tarball, upload_tarball --
    project,         \* the directory the user named: exists, and its walk
    environment,     \* the environment selected, "none" before
    dpc,             \* position within the deploy flow
    dresult,         \* "none", "Ok", "Err", "exit0", "panic": how the command ended
    cause,           \* why it ended
    archiveExists,   \* the archive file is on disk (created or truncated)
    archive,         \* walk indices of the entries appended to the builder
    finished,        \* builder.finish() succeeded
    total_files,     \* local of create_tarball (the counting walk)
    max_file_count,  \* DeployPermissions.max_file_count once parsed, else -1
    reported,        \* the numbers of the "too many files" message, if printed
    idx,             \* walk index of the entry the archiving walk is at
    files_processed, \* local of create_tarball
    tasks,           \* blocking tasks spawned and not yet joined
    lock,            \* holder of the builder mutex (a task id), 0 when free
    ioFailedAt,      \* Len(archive) when the first I/O error hit, else -1
    permReply,       \* the reply to the permissions request, once received
    permRequests,    \* permissions requests sent
    uploadRequests,  \* upload POSTs sent
    tarballResult,   \* "none", "Ok", "Err": what create_tarball returned
    largeAnswer,     \* what the large-project prompt was answered, "none" before
    base_url,        \* ApiClientConfig.base_url, the configured base address
    uploadTarget,    \* the URL the upload POST went to, base "none" before
    uploadReply,     \* what the upload POST came back as, once received
    uploadResult,    \* "none", "Ok", "Err": what upload_tarball returned
    uploadBar,       \* the upload progress bar: "none", "running", "abandoned",
                     \* "finished"
    uploadError,     \* status code and text of the error bail! built, else <<>>
    resolved,        \* "none", "ok", "failed": how fs::canonicalize ended
    archivePlace,    \* where the relative archive path lands: "outside" the
                     \* project root, "in_root", or "in_root_ignored" (in
                     \* the root and matched by an ignore rule)
    archiveAt,       \* walk index of the archive file in the tree, else 0
    grown            \* a file was added to the tree after the counting walk

deployVars == <<project, environment, dpc, dresult, cause, archiveExists, archive,
                finished, total_files, max_file_count, reported, idx,
                files_processed, tasks, lock, ioFailedAt, permReply,
                permRequests, uploadRequests, tarballResult, largeAnswer,
                base_url, uploadTarget, uploadReply, uploadResult, uploadBar,
                uploadError, resolved, archivePlace, archiveAt, grown>>

VARIABLES
    \* -- restart_service / trigger_backup and their watch loops --
    command,           \* "restart_service", "trigger_backup", or "none"
    service_name,      \* argument of restart_service
    cpc,               \* position within the command
    cresult,           \* "none", "Ok", "Err": what the command returned
    kpc,               \* position within the watch loop
    service_restarted, \* local of wait_for_service_restart
    restart_attempts,  \* its `attempts`
    backup_completed,  \* local of wait_for_backup_completion
    backup_attempts,   \* its `attempts`
    kresult,           \* "none", "Ok": what the watch function returned
    kwarned,           \* it printed its timeout warning
    \* -- what the feed did during the watch --
    commandPosts,      \* POSTs sent by the command
    watchRequests,     \* status requests sent by the watch loop
    delays,            \* one-second sleeps taken by the watch loop
    restartingPolls,   \* polls answered with the named service "Restarting"
    firstRunningAt,    \* first poll answered with the named service
                       \* "Running" (or the backup "completed"), else 0
    khandled,          \* the reply the watch loop has just handled
    kprinted,          \* what it printed for it
    cfgRead,           \* what reading config/cloud-config.json gave, "none" before
    postFailed         \* the command's POST came back as Err

watchVars == <<command, service_name, cpc, cresult, kpc, service_restarted,
               restart_attempts, backup_completed, backup_attempts, kresult,
               kwarned, commandPosts, watchRequests, delays, restartingPolls, firstRunningAt,
               khandled, kprinted, cfgRead, postFailed>>

VARIABLES
    \* -- one host line of the Init status block --
    host_status,       \* HostDeploymentStatus.status of the host rendered
    progress,          \* HostDeploymentStatus.progress, a u8
    build,             \* "debug" (overflow checks on) or "release"
    barpc,             \* "idle", "start", "rendered"
    bar                \* what computing the progress bar came to

VARIABLES
    \* -- init_environment, around bootstrap_orchestrator --
    ssh_hosts,         \* CloudConfig.ssh_hosts
    consent,           \* answer to "Ready to bootstrap ...?", "none" before
    epc,               \* "idle", "hosts", "confirm", "bootstrap", "done"
    eresult            \* "none", "Ok", "Err": what init_environment returned

VARIABLES
    \* -- ApiClient: the key-value settings and their file --
    settings,          \* ApiClient.config.settings: key -> value or "absent"
    config_path,       \* ApiClient.config_path: "some" or "none"
    disk,              \* the settings in the config file, "unwritten" if none
    lastOp,            \* the call just made, with what it returned
    prevOp             \* the call before it

barVars == <<host_status, progress, build, barpc, bar>>
envVars == <<ssh_hosts, consent, epc, eresult>>
setVars == <<settings, config_path, disk, lastOp, prevOp>>
unitVars == <<barVars, envVars, setVars>>

vars == <<bootVars, waitVars, feedVars, probeVars, deployVars, watchVars, unitVars>>

(***************************************************************************)
(* bootstrap_orchestrator.                                                 *)
(***************************************************************************)
CloudConfigs == [enable_monitoring : BOOLEAN, enable_backups : BOOLEAN]

PhaseEnabledAlways(phase, cfg) == TRUE
PhaseEnabled(phase, cfg) ==
    CASE phase = "monitoring" -> cfg.enable_monitoring
      [] phase = "backups" -> cfg.enable_backups
      [] OTHER -> TRUE

NextPhase(phase) ==
    CASE phase = "init" -> "network"
      [] phase = "network" -> "monitoring"
      [] phase = "monitoring" -> "backups"
      [] OTHER -> "end"

(***************************************************************************)
(* The feed as the server sent it, for the properties: whether a reply is  *)
(* a success carrying an envelope, and what its snapshot says about the    *)
(* phase being polled.                                                     *)
(***************************************************************************)
InitPollsShown == MAX_ATTEMPTS + 1

ReplySucceeded(reply) ==
    /\ reply.kind = "http" /\ reply.code \in {200, 201, 202}
    /\ reply.body.kind = "envelope"

ServicesOf(h) == {h.services[j] : j \in DOMAIN h.services}

\* the hosts a phase's condition leaves out: for backups, those that list
\* no backup-manager service
Excluded(ptype, hosts) ==
    {i \in DOMAIN hosts :
        /\ ptype = "backups"
        /\ "backup-manager" \notin {sv.name : sv \in ServicesOf(hosts[i])}}

\* the hosts that have not reached what the phase waits for: a step text
\* saying the network configuration is complete, a running
\* metrics-collector, a running backup-manager
Lacking(ptype, hosts) ==
    {i \in DOMAIN hosts \ Excluded(ptype, hosts) :
        CASE ptype = "network" ->
                ~Contains(hosts[i].current_step, TxtNetworkComplete)
          [] ptype = "monitoring" ->
                ServiceStatus("metrics-collector", "Running") \notin ServicesOf(hosts[i])
          [] ptype = "backups" ->
                ServiceStatus("backup-manager", "Running") \notin ServicesOf(hosts[i])
          [] OTHER -> FALSE}

Unhandled ==
    [kind |-> "idle", top |-> "none", shape |-> "none", n |-> 0,
     lacking |-> 0, excluded |-> 0, errorHost |-> FALSE]

Seen(ptype, reply) ==
    IF ~ReplySucceeded(reply)
    THEN [Unhandled EXCEPT !.kind = "failed"]
    ELSE IF reply.body.data.kind # "hosts"
    THEN [Unhandled EXCEPT !.kind = "ok", !.top = reply.body.status,
                           !.shape = IF reply.body.data.kind = "none"
                                     THEN "absent" ELSE "mismatch"]
    ELSE LET hosts == reply.body.data.hosts IN
         [kind |-> "ok", top |-> reply.body.status, shape |-> "hosts",
          n |-> Len(hosts),
          lacking |-> Cardinality(Lacking(ptype, hosts)),
          excluded |-> Cardinality(Excluded(ptype, hosts)),
          errorHost |-> \E i \in DOMAIN hosts : hosts[i].status = "error"]

\* the lines of one status block as the terminal gets them: the header, one
\* line per host of the reply, and the "Overall" line
BlockLines(reply) == 1 + Len(reply.body.data.hosts) + 1

\* the Err arm of the Init loop: "Failed to get deployment status: " and
\* the error, one println! each
ErrorLinesOf(reply) == Len(<<"Failed to get deployment status: ", "error">>)

\* the reply is one the Init loop renders a status block for
Rendered(reply) ==
    /\ ReplySucceeded(reply)
    /\ reply.body.status # "completed"
    /\ reply.body.data.kind = "hosts"

ProbeIdle ==
    /\ triggerOk = {} /\ triggerFailed = "none" /\ polled = {}
    /\ initPolls = 0 /\ initCompletedSeen = FALSE
    /\ handled = Unhandled /\ printed = "none"
    /\ prev_lines = 0 /\ erased = 0 /\ shown = 0 /\ shownBefore = 0
    /\ errorLines = 0 /\ stale = 0
    /\ timedOut = {} /\ offStatus = FALSE

WatchIdle ==
    /\ command = "none" /\ service_name = "none" /\ cpc = "idle" /\ cresult = "none"
    /\ kpc = "idle" /\ service_restarted = FALSE /\ restart_attempts = 0
    /\ backup_completed = FALSE /\ backup_attempts = 0
    /\ kresult = "none" /\ kwarned = FALSE
    /\ commandPosts = 0 /\ watchRequests = 0 /\ delays = 0 /\ restartingPolls = 0
    /\ firstRunningAt = 0 /\ khandled = Unhandled /\ kprinted = "none"
    /\ cfgRead = "none" /\ postFailed = FALSE

BarIdle ==
    /\ host_status = "none" /\ progress = 0 /\ build = "none"
    /\ barpc = "idle" /\ bar = [outcome |-> "none"]

EnvIdle ==
    /\ ssh_hosts = <<>> /\ consent = "none" /\ epc = "idle" /\ eresult = "none"

Keys == {"theme", "token"}
NoOp == [op |-> "none"]

SettingsIdle ==
    /\ settings = [k \in Keys |-> "absent"] /\ config_path = "none"
    /\ disk = "unwritten" /\ lastOp = NoOp /\ prevOp = NoOp

UnitIdle == BarIdle /\ EnvIdle /\ SettingsIdle

BootIdle ==
    /\ config = [enable_monitoring |-> FALSE, enable_backups |-> FALSE]
    /\ bphase = "none" /\ bpc = "idle" /\ bresult = "none"
    /\ all_complete = FALSE /\ ipc = "idle"
    /\ outstanding = {} /\ triggerLog = <<>> /\ pollingDone = {}
    /\ wpc = "idle" /\ process_type = "none" /\ complete = FALSE /\ attempts = 0
    /\ wresult = "none" /\ warned = FALSE
    /\ statusRequests = 0 /\ firstMet = 0 /\ convergedAt = 0 /\ allDoneNow = FALSE
    /\ ProbeIdle

\* ApiClientConfig::default
DefaultBaseUrl == "http://localhost:8002/api/v1"

\* no upload was started
UploadIdle ==
    /\ uploadTarget = [base |-> "none", path |-> "none"]
    /\ uploadReply = [kind |-> "none"]
    /\ uploadResult = "none" /\ uploadBar = "none" /\ uploadError = <<>>

DeployIdle ==
    /\ project = [exists |-> FALSE, runs |-> <<>>]
    /\ environment = "none" /\ dpc = "idle" /\ dresult = "none" /\ cause = "none"
    /\ archiveExists = FALSE /\ archive = <<>> /\ finished = FALSE
    /\ total_files = 0 /\ max_file_count = -1 /\ reported = <<>>
    /\ idx = 0 /\ files_processed = 0 /\ tasks = {} /\ lock = 0
    /\ ioFailedAt = -1 /\ permReply = [kind |-> "none"]
    /\ permRequests = 0 /\ uploadRequests = 0 /\ tarballResult = "none"
    /\ largeAnswer = "none" /\ resolved = "none"
    /\ archivePlace = "none" /\ archiveAt = 0 /\ grown = FALSE
    /\ base_url = DefaultBaseUrl
    /\ UploadIdle

InitBoot ==
    /\ config \in CloudConfigs
    /\ bphase = "init" /\ bpc = "post" /\ bresult = "none"
    /\ all_complete = FALSE /\ ipc = "idle"
    /\ outstanding = {} /\ triggerLog = <<>> /\ pollingDone = {}
    /\ wpc = "idle" /\ process_type = "none" /\ complete = FALSE /\ attempts = 0
    /\ wresult = "none" /\ warned = FALSE
    /\ statusRequests = 0 /\ firstMet = 0 /\ convergedAt = 0 /\ allDoneNow = FALSE
    /\ ProbeIdle
    /\ DeployIdle
    /\ WatchIdle
    /\ UnitIdle

\* the match on the result of a triggering POST: TRUE for the Err arm,
\* which returns the error
TriggerFailsNever(result) == FALSE
TriggerFails(result) == ~result.ok

\* the triggering POST of the phase is sent
TriggerSend ==
    /\ bpc = "post"
    /\ bpc' = "await"
    /\ outstanding' = outstanding \cup {[phase |-> bphase, kind |-> "trigger"]}
    /\ triggerLog' = Append(triggerLog, bphase)
    /\ UNCHANGED <<config, bphase, bresult, all_complete, ipc, pollingDone>>
    /\ UNCHANGED <<waitVars, feedVars, probeVars, deployVars, watchVars, unitVars>>

\* wait_for_process_completion is entered: its locals are initialised
EnterWait(ptype) ==
    /\ wpc' = "loop"
    /\ process_type' = ptype
    /\ complete' = FALSE
    /\ attempts' = 0
    /\ wresult' = "none"
    /\ warned' = FALSE
    /\ statusRequests' = 0 /\ firstMet' = 0 /\ convergedAt' = 0
    /\ allDoneNow' = FALSE

\* the triggering POST is answered: on Err the orchestrator returns the
\* error, on Ok it enters the phase's polling loop
TriggerRecv(reply) ==
    /\ bpc = "await"
    /\ outstanding' = outstanding \ {[phase |-> bphase, kind |-> "trigger"]}
    /\ LET result == Request(reply) IN
        IF TriggerFails(result)
        THEN /\ bpc' = "done" /\ bresult' = "Err"
             /\ UNCHANGED <<all_complete, ipc>>
             /\ UNCHANGED <<waitVars, feedVars>>
        ELSE /\ bpc' = "polling" /\ bresult' = bresult
             /\ IF bphase = "init"
                THEN /\ ipc' = "loop" /\ all_complete' = FALSE
                     /\ UNCHANGED <<waitVars, feedVars>>
                ELSE /\ EnterWait(bphase)
                     /\ UNCHANGED <<all_complete, ipc>>
    /\ triggerOk' = IF ReplySucceeded(reply) THEN triggerOk \cup {bphase} ELSE triggerOk
    /\ triggerFailed' = IF ReplySucceeded(reply) THEN triggerFailed ELSE bphase
    /\ UNCHANGED <<config, bphase, triggerLog, pollingDone>>
    /\ UNCHANGED <<polled, initPolls, initCompletedSeen, handled, printed>>
    /\ UNCHANGED renderVars
    /\ UNCHANGED <<timedOut, offStatus>>
    /\ UNCHANGED <<deployVars, watchVars, unitVars>>

\* STEP 2, the Init status loop: `while !all_complete`, one GET per turn
InitPollSend ==
    /\ bpc = "polling" /\ bphase = "init" /\ ipc = "loop" /\ ~all_complete
    /\ ipc' = "await"
    /\ outstanding' = outstanding \cup {[phase |-> "init", kind |-> "status"]}
    /\ polled' = polled \cup {"init"}
    /\ initPolls' = IF initPolls < InitPollsShown THEN initPolls + 1 ELSE initPolls
    /\ UNCHANGED <<config, bphase, bpc, bresult, all_complete, triggerLog, pollingDone>>
    /\ UNCHANGED <<triggerOk, triggerFailed, initCompletedSeen, handled, printed>>
    /\ UNCHANGED renderVars
    /\ UNCHANGED <<timedOut, offStatus>>
    /\ UNCHANGED <<waitVars, feedVars, deployVars, watchVars, unitVars>>

\* the GET is answered: Err is printed and retried after 2 s; a top-level
\* status of "completed" ends the loop; anything else is rendered (when the
\* data parses) and polled again after 1 s
InitPollRecv(reply) ==
    /\ bpc = "polling" /\ bphase = "init" /\ ipc = "await"
    /\ outstanding' = outstanding \ {[phase |-> "init", kind |-> "status"]}
    /\ IF InitPollCompletes(Request(reply))
       THEN all_complete' = TRUE /\ ipc' = "loop"
       ELSE all_complete' = all_complete /\ ipc' = "sleep"
    /\ printed' = InitPrinted(Request(reply))
    /\ IF InitPrinted(Request(reply)) = "status_block"
       THEN /\ erased' = Erases(prev_lines)
            /\ prev_lines' = TrackedLines(Request(reply).value.data.hosts)
       ELSE /\ erased' = 0
            /\ prev_lines' = prev_lines
    /\ IF Rendered(reply)
       THEN /\ shown' = BlockLines(reply) /\ shownBefore' = shown
            /\ stale' = shown + errorLines - Erases(prev_lines)
            /\ errorLines' = 0
       ELSE /\ UNCHANGED <<shown, shownBefore, stale>>
            /\ errorLines' =
                  IF ReplySucceeded(reply) \/ shown = 0 THEN errorLines
                  ELSE IF errorLines + ErrorLinesOf(reply) > MaxErrorLines
                       THEN MaxErrorLines
                       ELSE errorLines + ErrorLinesOf(reply)
    /\ handled' = Seen("init", reply)
    /\ initCompletedSeen' =
            (initCompletedSeen \/ (ReplySucceeded(reply) /\ reply.body.status = "completed"))
    /\ UNCHANGED <<config, bphase, bpc, bresult, triggerLog, pollingDone>>
    /\ UNCHANGED <<triggerOk, triggerFailed, polled, initPolls>>
    /\ UNCHANGED <<timedOut, offStatus>>
    /\ UNCHANGED <<waitVars, feedVars, deployVars, watchVars, unitVars>>

InitSleep ==
    /\ bpc = "polling" /\ bphase = "init" /\ ipc = "sleep"
    /\ ipc' = "loop"
    /\ handled' = Unhandled /\ printed' = "none"
    /\ erased' = 0 /\ shownBefore' = 0 /\ stale' = 0
    /\ UNCHANGED <<prev_lines, shown, errorLines>>
    /\ UNCHANGED <<config, bphase, bpc, bresult, all_complete, outstanding,
                   triggerLog, pollingDone>>
    /\ UNCHANGED <<triggerOk, triggerFailed, polled, initPolls, initCompletedSeen>>
    /\ UNCHANGED <<timedOut, offStatus>>
    /\ UNCHANGED <<waitVars, feedVars, deployVars, watchVars, unitVars>>

\* the loop condition fails: STEP 3 (network) follows unconditionally
InitLoopExit ==
    /\ bpc = "polling" /\ bphase = "init" /\ ipc = "loop" /\ all_complete
    /\ ipc' = "idle"
    /\ pollingDone' = pollingDone \cup {"init"}
    /\ bphase' = "network" /\ bpc' = "post"
    /\ handled' = Unhandled /\ printed' = "none" /\ initPolls' = 0
    /\ prev_lines' = 0 /\ erased' = 0 /\ shown' = 0 /\ shownBefore' = 0
    /\ errorLines' = 0 /\ stale' = 0
    /\ UNCHANGED <<config, bresult, all_complete, outstanding, triggerLog>>
    /\ UNCHANGED <<triggerOk, triggerFailed, polled, initCompletedSeen>>
    /\ UNCHANGED <<timedOut, offStatus>>
    /\ UNCHANGED <<waitVars, feedVars, deployVars, watchVars, unitVars>>

(***************************************************************************)
(* wait_for_process_completion.                                            *)
(***************************************************************************)
\* what the completion check is, stated on the server's reply: the request
\* succeeded with an envelope whose status is "completed", or whose data is
\* a host list meeting the phase's condition
MeetsCompletionCheck(ptype, reply) ==
    /\ reply.kind = "http" /\ reply.code \in {200, 201, 202}
    /\ reply.body.kind = "envelope"
    /\ \/ reply.body.status = "completed"
       \/ /\ reply.body.data.kind = "hosts"
          /\ LET hs == {reply.body.data.hosts[i] : i \in DOMAIN reply.body.data.hosts} IN
              CASE ptype = "network" ->
                      {h \in hs : ~Contains(h.current_step, TxtNetworkComplete)
                                  /\ ~(Contains(h.current_step, TxtNetwork) /\ h.completed)} = {}
                [] ptype = "monitoring" ->
                      {h \in hs : ServiceStatus("metrics-collector", "Running")
                                    \notin {h.services[j] : j \in DOMAIN h.services}} = {}
                [] ptype = "backups" ->
                      {h \in hs : /\ "backup-manager" \in
                                        {h.services[j].name : j \in DOMAIN h.services}
                                  /\ ServiceStatus("backup-manager", "Running")
                                        \notin {h.services[j] : j \in DOMAIN h.services}} = {}
                [] OTHER -> FALSE

\* the reply carries a non-empty host list in which every host is completed
ReportsAllHostsCompleted(reply) ==
    /\ reply.kind = "http" /\ reply.code \in {200, 201, 202}
    /\ reply.body.kind = "envelope"
    /\ reply.body.data.kind = "hosts"
    /\ reply.body.data.hosts # <<>>
    /\ \A i \in DOMAIN reply.body.data.hosts :
          /\ reply.body.data.hosts[i].completed
          /\ reply.body.data.hosts[i].status = "completed"

\* `while !complete && attempts < MAX_ATTEMPTS { attempts += 1; GET ...`
WaitSend ==
    /\ wpc = "loop" /\ LoopContinues(complete, attempts)
    /\ attempts' = attempts + 1
    /\ wpc' = "await"
    /\ outstanding' = outstanding \cup {[phase |-> process_type, kind |-> "status"]}
    /\ statusRequests' = statusRequests + 1
    /\ allDoneNow' = FALSE
    /\ UNCHANGED <<config, bphase, bpc, bresult, all_complete, ipc, triggerLog,
                   pollingDone>>
    /\ polled' = polled \cup {process_type}
    /\ UNCHANGED <<process_type, complete, wresult, warned, firstMet, convergedAt>>
    /\ UNCHANGED <<triggerOk, triggerFailed, initPolls, initCompletedSeen, handled,
                   printed>>
    /\ UNCHANGED renderVars
    /\ UNCHANGED <<timedOut, offStatus>>
    /\ UNCHANGED <<deployVars, watchVars, unitVars>>

\* the GET is answered: the match on the result either sets complete and
\* breaks, or falls through to the 1 s sleep
WaitRecv(reply) ==
    /\ wpc = "await"
    /\ outstanding' = outstanding \ {[phase |-> process_type, kind |-> "status"]}
    /\ IF PollCompletes(process_type, Request(reply))
       THEN complete' = TRUE /\ wpc' = "exit" /\ convergedAt' = attempts
       ELSE complete' = complete /\ wpc' = "sleep" /\ convergedAt' = convergedAt
    /\ firstMet' = IF firstMet = 0 /\ MeetsCompletionCheck(process_type, reply)
                   THEN attempts ELSE firstMet
    /\ allDoneNow' = ReportsAllHostsCompleted(reply)
    /\ UNCHANGED <<config, bphase, bpc, bresult, all_complete, ipc, triggerLog,
                   pollingDone>>
    /\ printed' = Printed(process_type, Request(reply))
    /\ handled' = Seen(process_type, reply)
    /\ UNCHANGED <<process_type, attempts, wresult, warned, statusRequests>>
    /\ UNCHANGED <<triggerOk, triggerFailed, polled, initPolls, initCompletedSeen>>
    /\ UNCHANGED renderVars
    /\ UNCHANGED timedOut
    /\ offStatus' = (reply.kind = "http" /\ reply.body.kind = "envelope"
                        /\ reply.code \notin {200, 201, 202})
    /\ UNCHANGED <<deployVars, watchVars, unitVars>>

WaitSleep ==
    /\ wpc = "sleep"
    /\ wpc' = "loop"
    /\ handled' = Unhandled /\ printed' = "none"
    /\ UNCHANGED <<triggerOk, triggerFailed, polled, initPolls, initCompletedSeen>>
    /\ UNCHANGED <<bootVars, feedVars, deployVars, watchVars, unitVars>>
    /\ UNCHANGED renderVars
    /\ UNCHANGED timedOut
    /\ offStatus' = FALSE
    /\ UNCHANGED <<process_type, complete, attempts, wresult, warned>>

\* the loop condition fails
WaitLoopExit ==
    /\ wpc = "loop" /\ ~LoopContinues(complete, attempts)
    /\ wpc' = "exit"
    /\ UNCHANGED <<bootVars, feedVars, probeVars, deployVars, watchVars, unitVars>>
    /\ UNCHANGED <<process_type, complete, attempts, wresult, warned>>

\* what wait_for_process_completion returns at its end, with or without
\* the timeout warning: Ok(())
WaitResultErrOnTimeout(complete_) == IF complete_ THEN "Ok" ELSE "Err"
WaitResult(complete_) == "Ok"

\* `if !complete { println!("Timed out ...") }  Ok(())`, and back in
\* bootstrap_orchestrator `.await?` lets the next step run on Ok and
\* returns an Err
WaitReturn ==
    /\ wpc = "exit"
    /\ warned' = ~complete
    /\ UNCHANGED offStatus
    /\ timedOut' = IF (attempts >= MAX_ATTEMPTS /\ firstMet = 0)
                   THEN timedOut \cup {process_type} ELSE timedOut
    /\ wresult' = WaitResult(complete)
    /\ wpc' = "returned"
    /\ pollingDone' = pollingDone \cup {process_type}
    /\ IF WaitResult(complete) = "Ok"
       THEN bphase' = NextPhase(bphase) /\ bpc' = "check" /\ bresult' = bresult
       ELSE bphase' = bphase /\ bpc' = "done" /\ bresult' = "Err"
    /\ UNCHANGED <<config, all_complete, ipc, outstanding, triggerLog>>
    /\ handled' = Unhandled /\ printed' = "none"
    /\ UNCHANGED <<process_type, complete, attempts>>
    /\ UNCHANGED <<triggerOk, triggerFailed, polled, initPolls, initCompletedSeen>>
    /\ UNCHANGED renderVars
    /\ UNCHANGED <<feedVars, deployVars, watchVars, unitVars>>

\* `if config.enable_monitoring {`, `if config.enable_backups {`
PhaseCheck ==
    /\ bpc = "check" /\ bphase # "end"
    /\ IF PhaseEnabled(bphase, config)
       THEN bpc' = "post" /\ bphase' = bphase
       ELSE bpc' = "check" /\ bphase' = NextPhase(bphase)
    /\ UNCHANGED <<config, bresult, all_complete, ipc, outstanding, triggerLog,
                   pollingDone>>
    /\ UNCHANGED <<waitVars, feedVars, probeVars, deployVars, watchVars, unitVars>>

\* "Environment is now fully configured"; Ok(())
BootFinish ==
    /\ bpc = "check" /\ bphase = "end"
    /\ bpc' = "done" /\ bresult' = "Ok"
    /\ UNCHANGED <<config, bphase, all_complete, ipc, outstanding, triggerLog,
                   pollingDone>>
    /\ UNCHANGED <<waitVars, feedVars, probeVars, deployVars, watchVars, unitVars>>

NextBoot ==
    \/ TriggerSend
    \/ \E reply \in TriggerReplies : TriggerRecv(reply)
    \/ InitPollSend
    \/ \E reply \in InitReplies : InitPollRecv(reply)
    \/ InitSleep
    \/ InitLoopExit
    \/ WaitSend
    \/ \E reply \in HttpReplies : WaitRecv(reply)
    \/ WaitSleep
    \/ WaitLoopExit
    \/ WaitReturn
    \/ PhaseCheck
    \/ BootFinish

SpecBoot == InitBoot /\ [][NextBoot]_vars

(***************************************************************************)
(* restart_service with wait_for_service_restart, and trigger_backup with  *)
(* wait_for_backup_completion.                                             *)
(***************************************************************************)
ServiceNames == {"api", "db"}

\* the body of GET /platforms/{cloud}/hosts/{host}/services: lists of up to
\* MaxServices services, each Running, Restarting or Stopped (the same name
\* may be listed twice)
ServiceRecords ==
    {ServiceStatus(n, s) : n \in ServiceNames, s \in {"Running", "Restarting", "Stopped"}}
ServiceListings == UNION {[1..n -> ServiceRecords] : n \in 0..MaxServices}

RestartReplies ==
    {[kind |-> "transport_error"]}
    \cup {[kind |-> "http", code |-> c, body |-> [kind |-> "garbage"]] : c \in {200, 500}}
    \cup {[kind |-> "http", code |-> 200, body |-> ApiResponse("success", d)] :
            d \in {[kind |-> "none"], [kind |-> "other"]}
                  \cup {[kind |-> "services", services |-> l] : l \in ServiceListings}}

\* the body of GET /platforms/{cloud}/backups/status: data is read as any
\* JSON value, of which the loop looks up "progress" and "current_step"
BackupInfos ==
    {[kind |-> "none"], [kind |-> "other"]}
    \cup {[kind |-> "object", progress |-> p, current_step |-> c] :
            p \in BOOLEAN, c \in BOOLEAN}
BackupReplies ==
    {[kind |-> "transport_error"]}
    \cup {[kind |-> "http", code |-> c, body |-> [kind |-> "garbage"]] : c \in {200, 500}}
    \cup {[kind |-> "http", code |-> 200, body |-> ApiResponse(st, d)] :
            st \in {"completed", "in_progress"}, d \in BackupInfos}

\* replies to the POST that starts either operation
CommandReplies ==
    {[kind |-> "transport_error"],
     [kind |-> "http", code |-> 500, body |-> [kind |-> "garbage"]],
     [kind |-> "http", code |-> 200, body |-> ApiResponse("success", [kind |-> "none"])]}

\* `services.iter().find(|s| s.name == service_name)`: the index found, 0
\* when there is none
Find(services, name) ==
    IF \E i \in DOMAIN services : services[i].name = name
    THEN CHOOSE i \in DOMAIN services :
            /\ services[i].name = name
            /\ \A j \in 1..(i - 1) : services[j].name # name
    ELSE 0

\* the body of the loop of wait_for_service_restart after the GET returned
\* `result`: TRUE when it sets service_restarted and breaks
RestartPollCompletesEarly(name, result) ==
    /\ result.ok
    /\ result.value.data.kind = "services"
    /\ Find(result.value.data.services, name) # 0
    /\ result.value.data.services[Find(result.value.data.services, name)].status
            \in {"Running", "Restarting"}
RestartPollCompletes(name, result) ==
    /\ result.ok
    /\ result.value.data.kind = "services"
    /\ Find(result.value.data.services, name) # 0
    /\ result.value.data.services[Find(result.value.data.services, name)].status
            = "Running"

\* what that turn prints
RestartPrinted(name, result) ==
    IF ~result.ok THEN "error"
    ELSE IF result.value.data.kind # "services" THEN "none"
    ELSE IF Find(result.value.data.services, name) = 0 THEN "not_found"
    ELSE LET st == result.value.data.services[Find(result.value.data.services, name)].status IN
         CASE st = "Running" -> "restarted"
           [] st = "Restarting" -> "restarting"
           [] OTHER -> "status"

RestartLoopContinuesInclusive(restarted, attempts_) ==
    ~restarted /\ attempts_ <= MAX_ATTEMPTS_RESTART
RestartLoopContinues(restarted, attempts_) ==
    ~restarted /\ attempts_ < MAX_ATTEMPTS_RESTART

\* the body of the loop of wait_for_backup_completion: TRUE when it sets
\* backup_completed and breaks
BackupPollCompletesOnError(result) ==
    ~result.ok \/ result.value.status = "completed"
BackupPollCompletes(result) ==
    result.ok /\ result.value.status = "completed"

BackupPrinted(result) ==
    IF ~result.ok THEN "error"
    ELSE IF result.value.status = "completed" THEN "completed"
    ELSE IF result.value.data.kind = "none" THEN "waiting"
    ELSE IF result.value.data.kind = "object"
            /\ (result.value.data.progress \/ result.value.data.current_step)
    THEN "progress"
    ELSE "none"

BackupLoopContinues(completed, attempts_) ==
    ~completed /\ attempts_ < MAX_ATTEMPTS_BACKUP

\* the watch feed as the server sent it: whether the reply is a success
\* carrying an envelope, and what it says of the service being watched
NamedStatus(name, reply) ==
    IF ~ReplySucceeded(reply) \/ reply.body.data.kind # "services" THEN "unknown"
    ELSE LET listed == {i \in DOMAIN reply.body.data.services :
                            reply.body.data.services[i].name = name} IN
         IF listed = {} THEN "absent"
         ELSE reply.body.data.services[
                  CHOOSE i \in listed : \A j \in listed : i <= j].status

WatchSeen(name, reply) ==
    IF ~ReplySucceeded(reply)
    THEN [Unhandled EXCEPT !.kind = "failed"]
    ELSE [Unhandled EXCEPT !.kind = "ok", !.top = reply.body.status,
                           !.shape = CASE reply.body.data.kind = "none" -> "absent"
                                       [] reply.body.data.kind = "other" -> "mismatch"
                                       [] OTHER -> NamedStatus(name, reply)]

InitWatch ==
    /\ command \in {"restart_service", "trigger_backup"}
    /\ service_name \in IF command = "restart_service" THEN ServiceNames ELSE {"none"}
    /\ cpc = "start" /\ cresult = "none"
    /\ kpc = "idle" /\ service_restarted = FALSE /\ restart_attempts = 0
    /\ backup_completed = FALSE /\ backup_attempts = 0
    /\ kresult = "none" /\ kwarned = FALSE
    /\ commandPosts = 0 /\ watchRequests = 0 /\ delays = 0 /\ restartingPolls = 0
    /\ firstRunningAt = 0 /\ khandled = Unhandled /\ kprinted = "none"
    /\ cfgRead = "none" /\ postFailed = FALSE
    /\ BootIdle
    /\ DeployIdle
    /\ UnitIdle

cmdVars == <<command, service_name, cpc, cresult, commandPosts>>
loopVars == <<kpc, service_restarted, restart_attempts, backup_completed,
              backup_attempts, kresult, kwarned>>
gateObs == <<cfgRead, postFailed>>
watchObs == <<watchRequests, delays, restartingPolls, firstRunningAt, khandled,
              kprinted>>
notWatchVars == <<bootVars, waitVars, feedVars, probeVars, deployVars, unitVars>>

\* restart_service / trigger_backup read config/cloud-config.json:
\* `cfg` is "unreadable" when reading or parsing fails, else says whether
\* enable_backups is set; only trigger_backup looks at enable_backups
\* trigger_backup: `if !config.enable_backups { ...; return Ok(()) }`
BackupsOffNever(cmd, cfg) == FALSE
BackupsOff(cmd, cfg) == cmd = "trigger_backup" /\ cfg = "backups_disabled"

CommandStart(cfg) ==
    /\ cpc = "start"
    /\ cfgRead' = cfg
    /\ CASE cfg = "unreadable" -> cpc' = "done" /\ cresult' = "Err"
         [] BackupsOff(command, cfg) -> cpc' = "done" /\ cresult' = "Ok"
         [] OTHER -> cpc' = "post" /\ cresult' = cresult
    /\ UNCHANGED <<command, service_name, commandPosts, postFailed>>
    /\ UNCHANGED <<loopVars, watchObs, notWatchVars>>

\* the POST .../services/{service}/restart or .../backups/trigger is sent
CommandPost ==
    /\ cpc = "post"
    /\ cpc' = "await"
    /\ commandPosts' = commandPosts + 1
    /\ UNCHANGED <<command, service_name, cresult>>
    /\ UNCHANGED gateObs
    /\ UNCHANGED <<loopVars, watchObs, notWatchVars>>

\* the POST is answered: Err is returned to the caller, Ok enters the
\* watch loop with its locals initialised
CommandPostRecv(reply) ==
    /\ cpc = "await"
    /\ postFailed' = ~ReplySucceeded(reply)
    /\ cfgRead' = cfgRead
    /\ IF Request(reply).ok
       THEN /\ cpc' = "watching" /\ cresult' = cresult
            /\ kpc' = "loop"
       ELSE /\ cpc' = "done" /\ cresult' = "Err"
            /\ kpc' = kpc
    /\ UNCHANGED <<command, service_name, commandPosts>>
    /\ UNCHANGED <<service_restarted, restart_attempts, backup_completed,
                   backup_attempts, kresult, kwarned>>
    /\ UNCHANGED <<watchObs, notWatchVars>>

\* `while !service_restarted && attempts < MAX_ATTEMPTS { attempts += 1; GET`
RestartSend ==
    /\ command = "restart_service" /\ kpc = "loop"
    /\ RestartLoopContinues(service_restarted, restart_attempts)
    /\ restart_attempts' = restart_attempts + 1
    /\ kpc' = "await"
    /\ watchRequests' = watchRequests + 1
    /\ UNCHANGED <<service_restarted, backup_completed, backup_attempts, kresult,
                   kwarned>>
    /\ UNCHANGED <<delays, restartingPolls, firstRunningAt, khandled, kprinted>>
    /\ UNCHANGED gateObs
    /\ UNCHANGED <<cmdVars, notWatchVars>>

\* the GET is answered: "Running" sets service_restarted and breaks,
\* anything else falls through to the 1 s sleep
RestartRecv(reply) ==
    /\ command = "restart_service" /\ kpc = "await"
    /\ IF RestartPollCompletes(service_name, Request(reply))
       THEN service_restarted' = TRUE /\ kpc' = "exit"
       ELSE service_restarted' = service_restarted /\ kpc' = "sleep"
    /\ kprinted' = RestartPrinted(service_name, Request(reply))
    /\ khandled' = WatchSeen(service_name, reply)
    /\ restartingPolls' = IF NamedStatus(service_name, reply) = "Restarting"
                          THEN restartingPolls + 1 ELSE restartingPolls
    /\ firstRunningAt' = IF firstRunningAt = 0
                            /\ NamedStatus(service_name, reply) = "Running"
                         THEN restart_attempts ELSE firstRunningAt
    /\ UNCHANGED <<restart_attempts, backup_completed, backup_attempts, kresult,
                   kwarned>>
    /\ UNCHANGED <<watchRequests, delays>>
    /\ UNCHANGED gateObs
    /\ UNCHANGED <<cmdVars, notWatchVars>>

\* `while !backup_completed && attempts < MAX_ATTEMPTS { attempts += 1; GET`
BackupSend ==
    /\ command = "trigger_backup" /\ kpc = "loop"
    /\ BackupLoopContinues(backup_completed, backup_attempts)
    /\ backup_attempts' = backup_attempts + 1
    /\ kpc' = "await"
    /\ watchRequests' = watchRequests + 1
    /\ UNCHANGED <<service_restarted, restart_attempts, backup_completed, kresult,
                   kwarned>>
    /\ UNCHANGED <<delays, restartingPolls, firstRunningAt, khandled, kprinted>>
    /\ UNCHANGED gateObs
    /\ UNCHANGED <<cmdVars, notWatchVars>>

\* the GET is answered: a status of "completed" sets backup_completed and
\* breaks, anything else falls through to the 1 s sleep
BackupRecv(reply) ==
    /\ command = "trigger_backup" /\ kpc = "await"
    /\ IF BackupPollCompletes(Request(reply))
       THEN backup_completed' = TRUE /\ kpc' = "exit"
       ELSE backup_completed' = backup_completed /\ kpc' = "sleep"
    /\ kprinted' = BackupPrinted(Request(reply))
    /\ khandled' = WatchSeen(service_name, reply)
    /\ firstRunningAt' = IF firstRunningAt = 0 /\ ReplySucceeded(reply)
                            /\ reply.body.status = "completed"
                         THEN backup_attempts ELSE firstRunningAt
    /\ UNCHANGED <<service_restarted, restart_attempts, backup_attempts, kresult,
                   kwarned>>
    /\ UNCHANGED <<watchRequests, delays, restartingPolls>>
    /\ UNCHANGED gateObs
    /\ UNCHANGED <<cmdVars, notWatchVars>>

\* tokio::time::sleep(Duration::from_secs(1)) at the end of the loop body
WatchSleep ==
    /\ kpc = "sleep"
    /\ kpc' = "loop"
    /\ delays' = delays + 1
    /\ khandled' = Unhandled /\ kprinted' = "none"
    /\ UNCHANGED <<service_restarted, restart_attempts, backup_completed,
                   backup_attempts, kresult, kwarned>>
    /\ UNCHANGED <<watchRequests, restartingPolls, firstRunningAt>>
    /\ UNCHANGED gateObs
    /\ UNCHANGED <<cmdVars, notWatchVars>>

\* the loop condition fails
WatchLoopExit ==
    /\ kpc = "loop"
    /\ IF command = "restart_service"
       THEN ~RestartLoopContinues(service_restarted, restart_attempts)
       ELSE ~BackupLoopContinues(backup_completed, backup_attempts)
    /\ kpc' = "exit"
    /\ UNCHANGED <<service_restarted, restart_attempts, backup_completed,
                   backup_attempts, kresult, kwarned>>
    /\ UNCHANGED gateObs
    /\ UNCHANGED <<cmdVars, watchObs, notWatchVars>>

\* the timeout warning when the flag is not set, Ok(()), and the caller's
\* `.await?` followed by its own Ok(())
WatchReturn ==
    /\ kpc = "exit"
    /\ kwarned' = IF command = "restart_service"
                  THEN ~service_restarted ELSE ~backup_completed
    /\ kresult' = "Ok"
    /\ kpc' = "returned"
    /\ cpc' = "done" /\ cresult' = "Ok"
    /\ khandled' = Unhandled /\ kprinted' = "none"
    /\ UNCHANGED <<command, service_name, commandPosts>>
    /\ UNCHANGED <<service_restarted, restart_attempts, backup_completed,
                   backup_attempts>>
    /\ UNCHANGED <<watchRequests, delays, restartingPolls, firstRunningAt>>
    /\ UNCHANGED gateObs
    /\ UNCHANGED notWatchVars

NextWatch ==
    \/ \E cfg \in {"unreadable", "backups_disabled", "backups_enabled"} : CommandStart(cfg)
    \/ CommandPost
    \/ \E reply \in CommandReplies : CommandPostRecv(reply)
    \/ RestartSend
    \/ \E reply \in RestartReplies : RestartRecv(reply)
    \/ BackupSend
    \/ \E reply \in BackupReplies : BackupRecv(reply)
    \/ WatchSleep
    \/ WatchLoopExit
    \/ WatchReturn

SpecWatch == InitWatch /\ [][NextWatch]_vars

(***************************************************************************)
(* The polling loops together: one run is a bootstrap, a service restart   *)
(* or a backup trigger.  Every request is answered (the client has a       *)
(* timeout) and every sleep ends, so a run keeps stepping while it can.    *)
(***************************************************************************)
InitPolling == InitBoot \/ InitWatch
NextPolling == NextBoot \/ NextWatch
SpecPolling == InitPolling /\ [][NextPolling]_vars

\* The same runs under a status feed whose snapshots have at most one host
\* (whether a loop ends depends on its counting, not on what the hosts
\* say), with the fairness that makes them keep stepping.
NarrowReplies ==
    {r \in HttpReplies :
        (r.kind = "http" /\ r.body.kind = "envelope" /\ r.body.data.kind = "hosts")
            => Len(r.body.data.hosts) <= 1}
NextPollingNarrow ==
    \/ TriggerSend
    \/ \E reply \in TriggerReplies : TriggerRecv(reply)
    \/ InitPollSend
    \/ \E reply \in InitReplies \cap NarrowReplies : InitPollRecv(reply)
    \/ InitSleep
    \/ InitLoopExit
    \/ WaitSend
    \/ \E reply \in NarrowReplies : WaitRecv(reply)
    \/ WaitSleep
    \/ WaitLoopExit
    \/ WaitReturn
    \/ PhaseCheck
    \/ BootFinish
    \/ NextWatch
FairPolling ==
    InitPolling /\ [][NextPollingNarrow]_vars /\ WF_vars(NextPollingNarrow)

(***************************************************************************)
(* The project tree, as the walker yields it.  Entry 0 is the root; the    *)
(* entries after it come in runs of equal kind: "dir", "file", or "other"  *)
(* (a symlink, which is neither).                                          *)
(***************************************************************************)
Runs == [kind : {"dir", "file", "other"}, n : 1..MaxRunLen]
SmallWalks == UNION {[1..k -> Runs] : k \in 0..MaxRuns}
LargeWalk == <<[kind |-> "file", n |-> LARGE_PROJECT_THRESHOLD + 1]>>
\* a tree of exactly as many files as the large-project threshold
ThresholdWalk == <<[kind |-> "file", n |-> LARGE_PROJECT_THRESHOLD]>>
Projects ==
    {[exists |-> FALSE, runs |-> <<>>]}
    \cup {[exists |-> TRUE, runs |-> w] : w \in SmallWalks \cup {LargeWalk, ThresholdWalk}}

RECURSIVE WalkLen(_)
WalkLen(runs) == IF runs = <<>> THEN 0 ELSE Head(runs).n + WalkLen(Tail(runs))

RECURSIVE KindAt(_, _)
KindAt(runs, k) ==
    IF k = 0 THEN "root"
    ELSE IF runs = <<>> THEN "end"
    ELSE IF k <= Head(runs).n THEN Head(runs).kind
    ELSE KindAt(Tail(runs), k - Head(runs).n)

\* the counting walk: entries whose file type is a regular file
RECURSIVE CountFiles(_)
CountFiles(runs) ==
    IF runs = <<>> THEN 0
    ELSE (IF Head(runs).kind = "file" THEN Head(runs).n ELSE 0) + CountFiles(Tail(runs))

(***************************************************************************)
(* create_tarball: the quota check.                                        *)
(***************************************************************************)
\* `x as i64` of a u64, on words of CountBits bits
AsI64(x) == IF x >= 2 ^ (CountBits - 1) THEN x - 2 ^ CountBits ELSE x

QuotaValues ==
    (0..MaxQuota)
    \cup {LARGE_PROJECT_THRESHOLD, LARGE_PROJECT_THRESHOLD + 1, 2 ^ CountBits - 1}

\* what the permissions request can come back as: send() failed, text()
\* failed, or a body that is or is not a DeployPermissions
PermReplies ==
    {[kind |-> "transport_error"], [kind |-> "body_error"],
     [kind |-> "text", json |-> "garbage"]}
    \cup {[kind |-> "text", json |-> "permissions", max_file_count |-> n] :
            n \in QuotaValues}

\* `if total_files > permissions.max_file_count`
TooManyFilesInclusive(total, max) == total >= max
TooManyFiles(total, max) == total > max

\* `total_files as i64 - permissions.max_file_count as i64`
TooManyBy(total, max) == AsI64(total) - AsI64(max)

\* the match on the result of the permissions request
PermissionsOutcomePermissive(reply, total) ==
    CASE reply.kind = "transport_error" -> "proceed"
      [] reply.kind = "body_error" -> "proceed"
      [] reply.json = "garbage" -> "proceed"
      [] TooManyFiles(total, reply.max_file_count) -> "quota_exceeded"
      [] OTHER -> "proceed"
PermissionsOutcome(reply, total) ==
    CASE reply.kind = "transport_error" -> "policy_fetch"
      [] reply.kind = "body_error" -> "policy_body"
      [] reply.json = "garbage" -> "policy_parse"
      [] TooManyFiles(total, reply.max_file_count) -> "quota_exceeded"
      [] OTHER -> "proceed"

(***************************************************************************)
(* deploy_interactive and create_tarball.                                  *)
(***************************************************************************)
Environments == {"Development", "Staging", "Production"}
\* the environments tried for a project: all three for the small trees, the
\* first for the large one
\* what a Confirm prompt can give: an answer, Enter alone, or an error
\* reading it
Answers == {"yes", "no", "enter", "io_error"}
EnvironmentsFor(p) ==
    IF p.runs \in {LargeWalk, ThresholdWalk} THEN {"Development"} ELSE Environments

\* Confirm::default(false): Enter alone takes the default, which declines
Confirmed(answer) == IF answer = "enter" THEN FALSE ELSE answer = "yes"

\* `if total_files > 5000`
LargeProjectInclusive(total) == total >= LARGE_PROJECT_THRESHOLD
LargeProject(total) == total > LARGE_PROJECT_THRESHOLD

\* the configured base addresses tried for a project: the default and one
\* set with with_base_url for the small trees, the default for the large ones
BaseUrlsFor(p) ==
    IF p.runs \in {LargeWalk, ThresholdWalk}
    THEN {DefaultBaseUrl}
    ELSE {DefaultBaseUrl, "https://platform.example.org/api/v1"}

\* `format!("{}.tar.gz", project_name)` is a relative path: the archive
\* is created in the working directory, which is the project root when the
\* command runs from inside the project
\* (tried on the trees of at most one run, as is a change of the tree
\* between the walks)
ArchivePlacesFor(p) ==
    IF Len(p.runs) <= 1 /\ p.runs \notin {LargeWalk, ThresholdWalk}
    THEN {"outside", "in_root", "in_root_ignored"}
    ELSE {"outside"}

inputVars == <<project, environment, base_url>>
uploadVars == <<uploadTarget, uploadReply, uploadResult, uploadBar, uploadError>>
archVars == <<archiveExists, archive, finished>>
quotaVars == <<total_files, max_file_count, reported, permReply, permRequests>>
walkVars == <<idx, files_processed, tasks, lock, ioFailedAt>>

InitDeploy ==
    /\ BootIdle
    /\ WatchIdle
    /\ project \in Projects
    /\ environment = "none" /\ dpc = "start" /\ dresult = "none" /\ cause = "none"
    /\ archiveExists = FALSE /\ archive = <<>> /\ finished = FALSE
    /\ total_files = 0 /\ max_file_count = -1 /\ reported = <<>>
    /\ idx = 0 /\ files_processed = 0 /\ tasks = {} /\ lock = 0
    /\ ioFailedAt = -1 /\ permReply = [kind |-> "none"]
    /\ permRequests = 0 /\ uploadRequests = 0 /\ tarballResult = "none"
    /\ largeAnswer = "none" /\ resolved = "none"
    /\ archivePlace \in ArchivePlacesFor(project)
    /\ archiveAt = 0 /\ grown = FALSE
    /\ base_url \in BaseUrlsFor(project)
    /\ UploadIdle
    /\ UnitIdle

\* the command ends: `return`, `?` or std::process::exit
End(result, why) == dpc' = "done" /\ dresult' = result /\ cause' = why

\* the path prompt, `if !Path::new(&project_path).exists()`, and the
\* environment selection; a prompt that cannot be read returns its error
DeployPrompts(env) ==
    /\ dpc = "start"
    /\ IF env = "io_error"
       THEN End("Err", "prompt_failed") /\ environment' = environment
       ELSE IF ~project.exists
       THEN End("Ok", "missing_root") /\ environment' = environment
       ELSE /\ environment' = env
            /\ dpc' = IF env = "Production" THEN "confirm" ELSE "canonicalize"
            /\ UNCHANGED <<dresult, cause>>
    /\ UNCHANGED <<project, base_url, archVars, quotaVars, walkVars, uploadRequests,
                   tarballResult>>
    /\ UNCHANGED largeAnswer
    /\ UNCHANGED uploadVars
    /\ UNCHANGED resolved
    /\ UNCHANGED <<archivePlace, archiveAt, grown>>
    /\ UNCHANGED <<bootVars, waitVars, feedVars, probeVars, watchVars, unitVars>>

\* "You're deploying to production. Are you sure?"
ConfirmProduction(answer) ==
    /\ dpc = "confirm"
    /\ CASE answer = "io_error" -> End("Err", "prompt_failed")
         [] Confirmed(answer) -> dpc' = "canonicalize" /\ UNCHANGED <<dresult, cause>>
         [] OTHER -> End("Ok", "cancelled")
    /\ UNCHANGED <<inputVars, archVars, quotaVars, walkVars, uploadRequests, tarballResult>>
    /\ UNCHANGED largeAnswer
    /\ UNCHANGED uploadVars
    /\ UNCHANGED resolved
    /\ UNCHANGED <<archivePlace, archiveAt, grown>>
    /\ UNCHANGED <<bootVars, waitVars, feedVars, probeVars, watchVars, unitVars>>

\* `.with_context(..)?` on fs::canonicalize: an error leaves create_tarball
ResolutionFailsNever(ok) == FALSE
ResolutionFails(ok) == ~ok

\* create_tarball: fs::canonicalize(project_path)?
Canonicalize(ok) ==
    /\ dpc = "canonicalize"
    /\ resolved' = IF ok THEN "ok" ELSE "failed"
    /\ IF ~ResolutionFails(ok)
       THEN dpc' = "create" /\ UNCHANGED <<dresult, cause, tarballResult>>
       ELSE End("Err", "path_resolution") /\ tarballResult' = "Err"
    /\ UNCHANGED <<inputVars, archVars, quotaVars, walkVars, uploadRequests>>
    /\ UNCHANGED largeAnswer
    /\ UNCHANGED uploadVars
    /\ UNCHANGED <<archivePlace, archiveAt, grown>>
    /\ UNCHANGED <<bootVars, waitVars, feedVars, probeVars, watchVars, unitVars>>

\* the walkers see a file the ignore rules do not match
ArchiveInTree(place) == place = "in_root"

\* File::create(&tar_gz_path)?, and the encoder and builder on top of it
CreateArchiveFile(ok) ==
    /\ dpc = "create"
    /\ IF ok
       THEN /\ archiveExists' = TRUE
            /\ IF ArchiveInTree(archivePlace)
               THEN /\ project' = [project EXCEPT !.runs = Append(@, [kind |-> "file", n |-> 1])]
                    /\ archiveAt' = WalkLen(project.runs) + 1
               ELSE UNCHANGED <<project, archiveAt>>
            /\ dpc' = "count" /\ UNCHANGED <<dresult, cause, tarballResult>>
       ELSE /\ archiveExists' = archiveExists
            /\ UNCHANGED <<project, archiveAt>>
            /\ End("Err", "create_failed") /\ tarballResult' = "Err"
    /\ UNCHANGED <<environment, base_url, archivePlace, grown>>
    /\ UNCHANGED <<archive, finished, quotaVars, walkVars, uploadRequests>>
    /\ UNCHANGED largeAnswer
    /\ UNCHANGED uploadVars
    /\ UNCHANGED resolved
    /\ UNCHANGED <<bootVars, waitVars, feedVars, probeVars, watchVars, unitVars>>

\* "Count total files first"
CountWalk ==
    /\ dpc = "count"
    /\ total_files' = CountFiles(project.runs)
    /\ dpc' = "permissions"
    /\ UNCHANGED <<dresult, cause, inputVars, archVars, max_file_count, reported,
                   permReply, permRequests, walkVars, uploadRequests, tarballResult>>
    /\ UNCHANGED largeAnswer
    /\ UNCHANGED uploadVars
    /\ UNCHANGED resolved
    /\ UNCHANGED <<archivePlace, archiveAt, grown>>
    /\ UNCHANGED <<bootVars, waitVars, feedVars, probeVars, watchVars, unitVars>>

\* client.post(".../deploy/permissions").send()
PermissionsSend ==
    /\ dpc = "permissions"
    /\ permRequests' = permRequests + 1
    /\ dpc' = "permissions_wait"
    /\ UNCHANGED <<dresult, cause, inputVars, archVars, total_files, max_file_count,
                   reported, permReply, walkVars, uploadRequests, tarballResult>>
    /\ UNCHANGED largeAnswer
    /\ UNCHANGED uploadVars
    /\ UNCHANGED resolved
    /\ UNCHANGED <<archivePlace, archiveAt, grown>>
    /\ UNCHANGED <<bootVars, waitVars, feedVars, probeVars, watchVars, unitVars>>

\* another process adds a regular file to the project tree while the
\* permissions request is in flight, after the counting walk (203-215) and
\* before the archiving walk (278-343)
TreeGrows ==
    /\ dpc = "permissions_wait" /\ ~grown
    /\ archivePlace = "outside"
    /\ Len(project.runs) <= 1 /\ project.runs \notin {LargeWalk, ThresholdWalk}
    /\ project' = [project EXCEPT !.runs = Append(@, [kind |-> "file", n |-> 1])]
    /\ grown' = TRUE
    /\ UNCHANGED <<dpc, dresult, cause, environment, base_url, archivePlace, archiveAt>>
    /\ UNCHANGED <<archVars, quotaVars, walkVars, uploadRequests, tarballResult>>
    /\ UNCHANGED largeAnswer
    /\ UNCHANGED uploadVars
    /\ UNCHANGED resolved
    /\ UNCHANGED <<bootVars, waitVars, feedVars, probeVars, watchVars, unitVars>>

\* the match on the answer: every failure and an exceeded quota end the
\* process with std::process::exit(0)
PermissionsRecv(reply) ==
    /\ dpc = "permissions_wait"
    /\ permReply' = reply
    /\ LET outcome == PermissionsOutcome(reply, total_files) IN
        /\ max_file_count' =
              IF reply.kind = "text" /\ reply.json = "permissions"
              THEN reply.max_file_count ELSE max_file_count
        /\ reported' =
              IF outcome = "quota_exceeded"
              THEN <<TooManyBy(total_files, reply.max_file_count), total_files,
                     reply.max_file_count>>
              ELSE reported
        /\ IF outcome = "proceed"
           THEN /\ dpc' = IF LargeProject(total_files)
                          THEN "confirm_large" ELSE "walk"
                /\ UNCHANGED <<dresult, cause>>
           ELSE End("exit0", outcome)
    /\ UNCHANGED <<inputVars, archVars, total_files, permRequests, walkVars,
                   uploadRequests, tarballResult>>
    /\ UNCHANGED largeAnswer
    /\ UNCHANGED uploadVars
    /\ UNCHANGED resolved
    /\ UNCHANGED <<archivePlace, archiveAt, grown>>
    /\ UNCHANGED <<bootVars, waitVars, feedVars, probeVars, watchVars, unitVars>>

\* "Your project contains more than 5000 files. Are you sure ..."
ConfirmLargeProject(answer) ==
    /\ dpc = "confirm_large"
    /\ largeAnswer' = answer
    /\ CASE answer = "io_error" ->
                End("Err", "prompt_failed") /\ tarballResult' = "Err"
         [] Confirmed(answer) ->
                dpc' = "walk" /\ UNCHANGED <<dresult, cause, tarballResult>>
         [] OTHER ->
                End("exit0", "declined") /\ tarballResult' = tarballResult
    /\ UNCHANGED <<inputVars, archVars, quotaVars, walkVars, uploadRequests>>
    /\ UNCHANGED uploadVars
    /\ UNCHANGED resolved
    /\ UNCHANGED <<archivePlace, archiveAt, grown>>
    /\ UNCHANGED <<bootVars, waitVars, feedVars, probeVars, watchVars, unitVars>>

(***************************************************************************)
(* create_tarball: the archiving walk.  Each append, and the final         *)
(* finish, runs in a task::spawn_blocking closure that locks the builder;  *)
(* the main loop awaits the task's JoinHandle before it goes on.           *)
(***************************************************************************)
Task(id, kind) == [id |-> id, kind |-> kind, tpc |-> "spawned", ok |-> TRUE]
FinishId == WalkLen(project.runs) + 1

\* the MutexGuard is dropped when the closure returns
LockKeptAfterTask(id) == id
LockAfterTask(id) == 0

\* `.await??` on the JoinHandle: does the task's error leave the function
TaskErrorIgnored(t) == FALSE
TaskErrorPropagates(t) == ~t.ok

\* `if relative_path.as_os_str().is_empty() { continue; }`: the walker's
\* first entry, the root itself
SkipsRootNever(k) == FALSE
SkipsRoot(k) == k = 0

\* entry.file_type(): the root is a directory
FileTypeAt(runs, k) == IF k = 0 THEN "dir" ELSE KindAt(runs, k)

\* the walker yields the root (skipped by `continue`) or an entry that is
\* neither a directory nor a file
WalkSkip ==
    /\ dpc = "walk" /\ idx \in 0..WalkLen(project.runs)
    /\ SkipsRoot(idx) \/ FileTypeAt(project.runs, idx) = "other"
    /\ idx' = idx + 1
    /\ UNCHANGED <<dpc, dresult, cause, inputVars, archVars, quotaVars,
                   files_processed, tasks, lock, ioFailedAt, uploadRequests,
                   tarballResult>>
    /\ UNCHANGED largeAnswer
    /\ UNCHANGED uploadVars
    /\ UNCHANGED resolved
    /\ UNCHANGED <<archivePlace, archiveAt, grown>>
    /\ UNCHANGED <<bootVars, waitVars, feedVars, probeVars, watchVars, unitVars>>

\* a directory: the append is dispatched
DispatchDir ==
    /\ dpc = "walk" /\ idx \in 0..WalkLen(project.runs)
    /\ ~SkipsRoot(idx) /\ FileTypeAt(project.runs, idx) = "dir"
    /\ tasks' = tasks \cup {Task(idx, "dir")}
    /\ dpc' = "join"
    /\ UNCHANGED <<dresult, cause, inputVars, archVars, quotaVars, idx,
                   files_processed, lock, ioFailedAt, uploadRequests, tarballResult>>
    /\ UNCHANGED largeAnswer
    /\ UNCHANGED uploadVars
    /\ UNCHANGED resolved
    /\ UNCHANGED <<archivePlace, archiveAt, grown>>
    /\ UNCHANGED <<bootVars, waitVars, feedVars, probeVars, watchVars, unitVars>>

\* a file: fs::read(&entry_path).await?, then the append is dispatched
ReadAndDispatchFile(ok) ==
    /\ dpc = "walk" /\ idx \in 0..WalkLen(project.runs)
    /\ ~SkipsRoot(idx) /\ FileTypeAt(project.runs, idx) = "file"
    /\ IF ok
       THEN /\ tasks' = tasks \cup {Task(idx, "file")}
            /\ dpc' = "join"
            /\ UNCHANGED <<dresult, cause, ioFailedAt, tarballResult>>
       ELSE /\ ioFailedAt' = Len(archive)
            /\ End("Err", "archive_io") /\ tarballResult' = "Err"
            /\ tasks' = tasks
    /\ UNCHANGED <<inputVars, archVars, quotaVars, idx, files_processed, lock,
                   uploadRequests>>
    /\ UNCHANGED largeAnswer
    /\ UNCHANGED uploadVars
    /\ UNCHANGED resolved
    /\ UNCHANGED <<archivePlace, archiveAt, grown>>
    /\ UNCHANGED <<bootVars, waitVars, feedVars, probeVars, watchVars, unitVars>>

\* the walk is over: "Finalizing tarball", builder.finish() is dispatched
DispatchFinish ==
    /\ dpc = "walk" /\ idx > WalkLen(project.runs)
    /\ tasks' = tasks \cup {Task(FinishId, "finish")}
    /\ dpc' = "join"
    /\ UNCHANGED <<dresult, cause, inputVars, archVars, quotaVars, idx,
                   files_processed, lock, ioFailedAt, uploadRequests, tarballResult>>
    /\ UNCHANGED largeAnswer
    /\ UNCHANGED uploadVars
    /\ UNCHANGED resolved
    /\ UNCHANGED <<archivePlace, archiveAt, grown>>
    /\ UNCHANGED <<bootVars, waitVars, feedVars, probeVars, watchVars, unitVars>>

\* a blocking task: builder.lock().unwrap()
TaskLock(t) ==
    /\ t \in tasks /\ t.tpc = "spawned" /\ lock = 0
    /\ lock' = t.id
    /\ tasks' = (tasks \ {t}) \cup {[t EXCEPT !.tpc = "locked"]}
    /\ UNCHANGED <<dpc, dresult, cause, inputVars, archVars, quotaVars, idx,
                   files_processed, ioFailedAt, uploadRequests, tarballResult>>
    /\ UNCHANGED largeAnswer
    /\ UNCHANGED uploadVars
    /\ UNCHANGED resolved
    /\ UNCHANGED <<archivePlace, archiveAt, grown>>
    /\ UNCHANGED <<bootVars, waitVars, feedVars, probeVars, watchVars, unitVars>>

\* a blocking task: append_data(...)? or finish()?, then the closure
\* returns and the guard is dropped
TaskRun(t, ok) ==
    /\ t \in tasks /\ t.tpc = "locked" /\ lock = t.id
    /\ IF ok
       THEN /\ archive' = IF t.kind = "finish" THEN archive ELSE Append(archive, t.id)
            /\ finished' = (finished \/ t.kind = "finish")
            /\ ioFailedAt' = ioFailedAt
       ELSE /\ UNCHANGED <<archive, finished>>
            /\ ioFailedAt' = IF ioFailedAt < 0 THEN Len(archive) ELSE ioFailedAt
    /\ lock' = LockAfterTask(t.id)
    /\ tasks' = (tasks \ {t}) \cup {[t EXCEPT !.tpc = "done", !.ok = ok]}
    /\ UNCHANGED <<dpc, dresult, cause, inputVars, archiveExists, quotaVars, idx,
                   files_processed, uploadRequests, tarballResult>>
    /\ UNCHANGED largeAnswer
    /\ UNCHANGED uploadVars
    /\ UNCHANGED resolved
    /\ UNCHANGED <<archivePlace, archiveAt, grown>>
    /\ UNCHANGED <<bootVars, waitVars, feedVars, probeVars, watchVars, unitVars>>

\* `files_processed += 1` stands in the branch of regular files only
CountsFileOrDir(kind) == kind \in {"file", "dir"}
CountsFile(kind) == kind = "file"

\* the main loop: `.await??` on the task it dispatched
Join(t) ==
    /\ dpc = "join" /\ t \in tasks /\ t.tpc = "done"
    /\ tasks' = tasks \ {t}
    /\ IF TaskErrorPropagates(t)
       THEN /\ End("Err", "archive_io") /\ tarballResult' = "Err"
            /\ UNCHANGED <<idx, files_processed>>
       ELSE IF t.kind = "finish"
            THEN /\ tarballResult' = "Ok"
                 /\ dpc' = "prepare"
                 /\ UNCHANGED <<dresult, cause, idx, files_processed>>
            ELSE /\ files_processed' =
                        IF CountsFile(t.kind) THEN files_processed + 1
                        ELSE files_processed
                 /\ idx' = idx + 1
                 /\ dpc' = "walk"
                 /\ UNCHANGED <<dresult, cause, tarballResult>>
    /\ UNCHANGED <<inputVars, archVars, quotaVars, lock, ioFailedAt, uploadRequests>>
    /\ UNCHANGED largeAnswer
    /\ UNCHANGED uploadVars
    /\ UNCHANGED resolved
    /\ UNCHANGED <<archivePlace, archiveAt, grown>>
    /\ UNCHANGED <<bootVars, waitVars, feedVars, probeVars, watchVars, unitVars>>

(***************************************************************************)
(* upload_tarball and the clean-up after it.                               *)
(***************************************************************************)
\* the text of a response body
UploadBodies == {"bad archive", "denied"}

\* what the upload POST can come back as: send() failed, or a response with
\* a status code and a body that text() can or cannot read
UploadReplies ==
    {[kind |-> "transport_error"]}
    \cup {[kind |-> "http", code |-> c, readable |-> TRUE, body |-> b] :
            c \in {200, 201, 204, 299, 300, 400, 500}, b \in UploadBodies}
    \cup {[kind |-> "http", code |-> c, readable |-> FALSE, body |-> ""] :
            c \in {200, 201, 204, 299, 300, 400, 500}}

\* StatusCode::is_success
IsSuccessOkOnly(code) == code = 200
IsSuccess(code) == 200 <= code /\ code <= 299

\* the path of the upload URL, with the project's name and the fresh
\* release id "u-<uuid>" in it
UploadPath == "/apps/{name}/releases/{uuid_str}/upload"

\* `let api_url = match environment { _ => format!(...) }`
ApiUrl(env) == [base |-> "http://100.120.68.15:8000/api/v1", path |-> UploadPath]

\* `response.text().await.unwrap_or_else(|_| "No error message".to_string())`
ErrorText(reply) == IF reply.readable THEN reply.body ELSE "No error message"

\* where the flow is after upload_tarball returned an error: the `?` in
\* deploy_interactive returns it
AfterUploadErrorRetry == "upload"
AfterUploadError == "done"

\* deploy_interactive between the tarball and the upload: current_dir()?
\* and the is_dir check return an error, the two expect() calls panic
PrepareUpload(outcome) ==
    /\ dpc = "prepare"
    /\ CASE outcome = "ok" -> dpc' = "upload" /\ UNCHANGED <<dresult, cause>>
         [] outcome = "err" -> End("Err", "prepare_failed")
         [] OTHER -> End("panic", "prepare_failed")
    /\ UNCHANGED <<inputVars, archVars, quotaVars, walkVars, uploadRequests,
                   tarballResult>>
    /\ UNCHANGED largeAnswer
    /\ UNCHANGED uploadVars
    /\ UNCHANGED resolved
    /\ UNCHANGED <<archivePlace, archiveAt, grown>>
    /\ UNCHANGED <<bootVars, waitVars, feedVars, probeVars, watchVars, unitVars>>

\* `if !path.is_file()`, fs::read(tarball_path).await?, the progress bar,
\* then the POST
UploadSend(readOk) ==
    /\ dpc = "upload"
    /\ IF archiveExists /\ readOk
       THEN /\ uploadRequests' = uploadRequests + 1
            /\ uploadTarget' = ApiUrl(environment)
            /\ uploadBar' = "running"
            /\ dpc' = "upload_wait"
            /\ UNCHANGED <<dresult, cause, uploadResult>>
       ELSE /\ dpc' = AfterUploadError /\ dresult' = "Err" /\ cause' = "upload_failed"
            /\ uploadResult' = "Err"
            /\ UNCHANGED <<uploadRequests, uploadTarget, uploadBar>>
    /\ UNCHANGED <<inputVars, archVars, quotaVars, walkVars, tarballResult>>
    /\ UNCHANGED <<largeAnswer, uploadReply, uploadError>>
    /\ UNCHANGED resolved
    /\ UNCHANGED <<archivePlace, archiveAt, grown>>
    /\ UNCHANGED <<bootVars, waitVars, feedVars, probeVars, watchVars, unitVars>>

\* `.send().await?`, `if !response.status().is_success() { bail!(...) }`
UploadRecv(reply) ==
    /\ dpc = "upload_wait"
    /\ uploadReply' = reply
    /\ CASE reply.kind = "transport_error" ->
                /\ dpc' = AfterUploadError /\ dresult' = "Err" /\ cause' = "upload_failed"
                /\ uploadResult' = "Err"
                /\ UNCHANGED <<uploadBar, uploadError>>
         [] reply.kind = "http" /\ ~IsSuccess(reply.code) ->
                /\ uploadBar' = "abandoned"
                /\ uploadError' = <<reply.code, ErrorText(reply)>>
                /\ dpc' = AfterUploadError /\ dresult' = "Err" /\ cause' = "upload_failed"
                /\ uploadResult' = "Err"
         [] OTHER ->
                /\ uploadBar' = "finished"
                /\ uploadResult' = "Ok"
                /\ dpc' = "cleanup"
                /\ UNCHANGED <<dresult, cause, uploadError>>
    /\ UNCHANGED <<inputVars, archVars, quotaVars, walkVars, uploadRequests,
                   tarballResult>>
    /\ UNCHANGED <<largeAnswer, uploadTarget>>
    /\ UNCHANGED resolved
    /\ UNCHANGED <<archivePlace, archiveAt, grown>>
    /\ UNCHANGED <<bootVars, waitVars, feedVars, probeVars, watchVars, unitVars>>

\* fs::remove_file(&tarball_path).await.context(...)?
CleanUp(ok) ==
    /\ dpc = "cleanup"
    /\ IF ok
       THEN /\ archiveExists' = FALSE
            /\ dpc' = "steps" /\ UNCHANGED <<dresult, cause>>
       ELSE /\ archiveExists' = archiveExists
            /\ End("Err", "cleanup_failed")
    /\ UNCHANGED <<inputVars, archive, finished, quotaVars, walkVars,
                   uploadRequests, tarballResult>>
    /\ UNCHANGED largeAnswer
    /\ UNCHANGED uploadVars
    /\ UNCHANGED resolved
    /\ UNCHANGED <<archivePlace, archiveAt, grown>>
    /\ UNCHANGED <<bootVars, waitVars, feedVars, probeVars, watchVars, unitVars>>

\* the progress steps and the status table; Ok(())
DeployFinish ==
    /\ dpc = "steps"
    /\ End("Ok", "deployed")
    /\ UNCHANGED <<inputVars, archVars, quotaVars, walkVars, uploadRequests,
                   tarballResult>>
    /\ UNCHANGED largeAnswer
    /\ UNCHANGED uploadVars
    /\ UNCHANGED resolved
    /\ UNCHANGED <<archivePlace, archiveAt, grown>>
    /\ UNCHANGED <<bootVars, waitVars, feedVars, probeVars, watchVars, unitVars>>

NextDeploy ==
    \/ \E env \in EnvironmentsFor(project) \cup {"io_error"} : DeployPrompts(env)
    \/ \E answer \in Answers : ConfirmProduction(answer)
    \/ \E ok \in BOOLEAN : Canonicalize(ok)
    \/ \E ok \in BOOLEAN : CreateArchiveFile(ok)
    \/ CountWalk
    \/ PermissionsSend
    \/ TreeGrows
    \/ \E reply \in PermReplies : PermissionsRecv(reply)
    \/ \E answer \in Answers : ConfirmLargeProject(answer)
    \/ WalkSkip
    \/ DispatchDir
    \/ \E ok \in BOOLEAN : ReadAndDispatchFile(ok)
    \/ DispatchFinish
    \/ \E t \in tasks : TaskLock(t)
    \/ \E t \in tasks, ok \in BOOLEAN : TaskRun(t, ok)
    \/ \E t \in tasks : Join(t)
    \/ \E outcome \in {"ok", "err", "panic"} : PrepareUpload(outcome)
    \/ \E readOk \in BOOLEAN : UploadSend(readOk)
    \/ \E reply \in UploadReplies : UploadRecv(reply)
    \/ \E ok \in BOOLEAN : CleanUp(ok)
    \/ DeployFinish

SpecDeploy == InitDeploy /\ [][NextDeploy]_vars

(***************************************************************************)
(* init_environment: the checks in front of bootstrap_orchestrator.        *)
(***************************************************************************)
InitEnv ==
    /\ config \in CloudConfigs
    /\ bphase = "none" /\ bpc = "idle" /\ bresult = "none"
    /\ all_complete = FALSE /\ ipc = "idle"
    /\ outstanding = {} /\ triggerLog = <<>> /\ pollingDone = {}
    /\ wpc = "idle" /\ process_type = "none" /\ complete = FALSE /\ attempts = 0
    /\ wresult = "none" /\ warned = FALSE
    /\ statusRequests = 0 /\ firstMet = 0 /\ convergedAt = 0 /\ allDoneNow = FALSE
    /\ ProbeIdle
    /\ DeployIdle
    /\ WatchIdle
    /\ BarIdle
    /\ SettingsIdle
    /\ ssh_hosts \in {<<>>, <<"10.0.0.1">>}
    /\ consent = "none" /\ epc = "hosts" /\ eresult = "none"

\* `if config.ssh_hosts.is_empty()`
NoHostsNever(hosts) == FALSE
NoHosts(hosts) == hosts = <<>>

\* Confirm::default(true): Enter alone takes the default, which confirms
ConfirmedDefaultYes(answer) == answer \in {"yes", "enter"}

\* "No SSH hosts configured. Cannot bootstrap OmniOrchestrator."; Ok(())
CheckHosts ==
    /\ epc = "hosts"
    /\ IF NoHosts(ssh_hosts)
       THEN epc' = "done" /\ eresult' = "Ok"
       ELSE epc' = "confirm" /\ eresult' = eresult
    /\ UNCHANGED <<ssh_hosts, consent, barVars, setVars>>
    /\ UNCHANGED <<bootVars, waitVars, feedVars, probeVars, deployVars, watchVars>>

\* "Ready to bootstrap OmniOrchestrator on all configured hosts?": a prompt
\* that cannot be read returns its error, a "no" prints "Bootstrapping
\* cancelled." and returns Ok, otherwise bootstrap_orchestrator is entered
ConfirmBootstrap(answer) ==
    /\ epc = "confirm"
    /\ consent' = answer
    /\ CASE answer = "io_error" ->
                epc' = "done" /\ eresult' = "Err" /\ UNCHANGED <<bphase, bpc>>
         [] ConfirmedDefaultYes(answer) ->
                /\ epc' = "bootstrap" /\ eresult' = eresult
                /\ bphase' = "init" /\ bpc' = "post"
         [] OTHER ->
                epc' = "done" /\ eresult' = "Ok" /\ UNCHANGED <<bphase, bpc>>
    /\ UNCHANGED <<config, bresult, all_complete, ipc, outstanding, triggerLog,
                   pollingDone>>
    /\ UNCHANGED <<ssh_hosts, barVars, setVars>>
    /\ UNCHANGED <<waitVars, feedVars, probeVars, deployVars, watchVars>>

\* `self.bootstrap_orchestrator(&config).await?`, then "Environment
\* initialization completed!" and Ok(())
InitEnvFinish ==
    /\ epc = "bootstrap" /\ bpc = "done"
    /\ epc' = "done" /\ eresult' = bresult
    /\ UNCHANGED <<ssh_hosts, consent, barVars, setVars>>
    /\ UNCHANGED <<bootVars, waitVars, feedVars, probeVars, deployVars, watchVars>>

NextInitEnv ==
    \/ CheckHosts
    \/ \E answer \in Answers : ConfirmBootstrap(answer)
    \/ TriggerSend
    \/ \E reply \in TriggerReplies : TriggerRecv(reply)
    \/ InitPollSend
    \/ \E reply \in InitReplies \cap NarrowReplies : InitPollRecv(reply)
    \/ InitSleep
    \/ InitLoopExit
    \/ WaitSend
    \/ \E reply \in NarrowReplies : WaitRecv(reply)
    \/ WaitSleep
    \/ WaitLoopExit
    \/ WaitReturn
    \/ PhaseCheck
    \/ BootFinish
    \/ InitEnvFinish

SpecInitEnv == InitEnv /\ [][NextInitEnv]_vars

(***************************************************************************)
(* ApiClient: get_setting, set_setting, remove_setting, save_config.       *)
(***************************************************************************)
\* ApiClient::new: the settings are those of the loaded config file, or
\* empty; config_path is None when there is no config directory
InitSettings ==
    /\ BootIdle
    /\ DeployIdle
    /\ WatchIdle
    /\ BarIdle
    /\ EnvIdle
    /\ settings \in [Keys -> {"absent", "old"}]
    /\ config_path \in {"some", "none"}
    /\ disk = IF config_path = "some" THEN settings ELSE "unwritten"
    /\ lastOp = NoOp /\ prevOp = NoOp

\* save_config: Err without a config path or when the write fails
SaveConfig(path, writeOk) ==
    IF path = "some" /\ writeOk THEN "Ok" ELSE "Err"

\* `self.config.settings.insert(key.to_string(), json_value);` comes before
\* `self.save_config()`, whose result does not undo it
InsertedOnlyIfSaved(old, key, value, saved) ==
    IF saved = "Ok" THEN [old EXCEPT ![key] = value] ELSE old
Inserted(old, key, value, saved) == [old EXCEPT ![key] = value]

\* set_setting(key, value): `serde_json::to_value(value)?`, the insert,
\* then save_config()
SetSetting(key, serializes, writeOk) ==
    /\ LET saved == SaveConfig(config_path, writeOk) IN
        IF ~serializes
        THEN /\ UNCHANGED <<settings, disk>>
             /\ lastOp' = [op |-> "set", key |-> key, result |-> "Err",
                           stored |-> FALSE, saveTried |-> FALSE, io |-> writeOk]
        ELSE /\ settings' = Inserted(settings, key, "new", saved)
             /\ disk' = IF saved = "Ok" THEN settings' ELSE disk
             /\ lastOp' = [op |-> "set", key |-> key, result |-> saved,
                           stored |-> TRUE, saveTried |-> TRUE, io |-> writeOk]
    /\ prevOp' = lastOp
    /\ UNCHANGED config_path
    /\ UNCHANGED <<barVars, envVars>>
    /\ UNCHANGED <<bootVars, waitVars, feedVars, probeVars, deployVars, watchVars>>

\* remove_setting(key): `let removed = ...remove(key).is_some();
\* if removed { let _ = self.save_config(); } removed`
RemoveSetting(key, writeOk) ==
    /\ LET removed == settings[key] # "absent"
           saved == SaveConfig(config_path, writeOk) IN
        /\ settings' = [settings EXCEPT ![key] = "absent"]
        /\ disk' = IF removed /\ saved = "Ok" THEN settings' ELSE disk
        /\ lastOp' = [op |-> "remove", key |-> key, result |-> removed,
                      stored |-> FALSE, saveTried |-> removed, io |-> writeOk]
    /\ prevOp' = lastOp
    /\ UNCHANGED config_path
    /\ UNCHANGED <<barVars, envVars>>
    /\ UNCHANGED <<bootVars, waitVars, feedVars, probeVars, deployVars, watchVars>>

\* get_setting::<T>(key): the stored value if it deserializes to T
GetSetting(key, fits) ==
    /\ lastOp' = [op |-> "get", key |-> key,
                  result |-> IF fits THEN settings[key] ELSE "absent",
                  stored |-> fits, saveTried |-> FALSE, io |-> TRUE]
    /\ prevOp' = lastOp
    /\ UNCHANGED <<settings, config_path, disk>>
    /\ UNCHANGED <<barVars, envVars>>
    /\ UNCHANGED <<bootVars, waitVars, feedVars, probeVars, deployVars, watchVars>>

NextSettings ==
    \/ \E key \in Keys, serializes \in BOOLEAN, writeOk \in BOOLEAN :
            SetSetting(key, serializes, writeOk)
    \/ \E key \in Keys, writeOk \in BOOLEAN : RemoveSetting(key, writeOk)
    \/ \E key \in Keys, fits \in BOOLEAN : GetSetting(key, fits)

SpecSettings == InitSettings /\ [][NextSettings]_vars

(***************************************************************************)
(* The progress bar of one host line of the Init status block.             *)
(***************************************************************************)
\* `10 - filled` on usize (words of UsizeBits bits): with overflow checks (debug) a subtraction that
\* goes below zero panics, without them (release) it wraps
EmptyCells(filled, b) ==
    IF filled <= 10 THEN [panic |-> FALSE, value |-> 10 - filled]
    ELSE IF b = "debug" THEN [panic |-> TRUE, value |-> 0]
    ELSE [panic |-> FALSE, value |-> (10 - filled) % (2 ^ UsizeBits)]

\* str::repeat(n) of a three-byte character: the byte length is computed
\* with checked_mul and panics with "capacity overflow" when it does not fit
RepeatPanics(n) == 3 * n > 2 ^ UsizeBits - 1

\* the `progress_bar` of a host line
ProgressBar(status, p, b) ==
    IF status = "completed"
    THEN [outcome |-> "drawn", filled |-> 10, empty |-> 0, underflow |-> FALSE]
    ELSE LET filled == p \div 10
             empty == EmptyCells(filled, b)
         IN  IF empty.panic
             THEN [outcome |-> "panic", filled |-> filled, empty |-> 0,
                   underflow |-> TRUE]
             ELSE IF RepeatPanics(filled) \/ RepeatPanics(empty.value)
             THEN [outcome |-> "panic", filled |-> filled, empty |-> empty.value,
                   underflow |-> filled > 10]
             ELSE [outcome |-> "drawn", filled |-> filled, empty |-> empty.value,
                   underflow |-> filled > 10]

HostStatuses == {"pending", "in_progress", "completed", "error", "unknown"}

InitRender ==
    /\ BootIdle
    /\ DeployIdle
    /\ WatchIdle
    /\ host_status \in HostStatuses
    /\ progress \in 0..(2 ^ 8 - 1)
    /\ build \in {"debug", "release"}
    /\ barpc = "start" /\ bar = [outcome |-> "none"]
    /\ EnvIdle
    /\ SettingsIdle

\* `for host in &host_statuses { ... let progress_bar = ...; println!(..) }`
RenderHostLine ==
    /\ barpc = "start"
    /\ bar' = ProgressBar(host_status, progress, build)
    /\ barpc' = "rendered"
    /\ UNCHANGED <<host_status, progress, build, envVars, setVars>>
    /\ UNCHANGED <<bootVars, waitVars, feedVars, probeVars, deployVars, watchVars>>

NextRender == RenderHostLine

SpecRender == InitRender /\ [][NextRender]_vars

(***************************************************************************)
(* Properties of the bootstrap protocol (SpecBoot).                        *)
(***************************************************************************)
Triggered == {triggerLog[i] : i \in DOMAIN triggerLog}

\* C1: a call of wait_for_process_completion during which no reply met the
\* completion check has, once it returned, issued exactly MAX_ATTEMPTS (120)
\* status requests, printed the timeout warning and returned Ok; and it
\* leaves the loop only after the 120th request.
TimeoutBoundary ==
    /\ (wpc = "returned" /\ firstMet = 0) =>
            /\ statusRequests = MAX_ATTEMPTS
            /\ warned
            /\ wresult = "Ok"
    /\ (wpc = "exit" /\ firstMet = 0) => statusRequests = MAX_ATTEMPTS

\* C1 witness: the backups phase timed out after 120 polls.
TimeoutBoundaryWitness ==
    /\ wpc = "returned" /\ process_type = "backups"
    /\ firstMet = 0 /\ statusRequests = MAX_ATTEMPTS /\ warned

\* C2 as stated: whenever a poll's snapshot reports all hosts completed,
\* the call declares convergence at that very attempt.
ConvergesWhenAllHostsCompleted ==
    allDoneNow => (complete /\ convergedAt = attempts)

\* C2 amended: the call declares convergence at exactly the first attempt k
\* whose reply meets the phase's completion check (top-level status
\* "completed", or the phase's own condition over the parsed host list); it
\* has then issued exactly k status requests, issues none afterwards, and
\* never more than MAX_ATTEMPTS.
ConvergesAtFirstMet ==
    /\ firstMet > 0 =>
            /\ wpc \in {"exit", "returned"}
            /\ complete
            /\ convergedAt = firstMet
            /\ statusRequests = firstMet
    /\ complete => firstMet > 0
    /\ statusRequests <= MAX_ATTEMPTS

\* C2 witness: monitoring converged on the last attempt of the budget, on a
\* host list (not on the top-level status), and the call has returned.
ConvergesAtFirstMetWitness ==
    /\ wpc = "returned" /\ process_type = "monitoring"
    /\ complete /\ convergedAt = MAX_ATTEMPTS /\ firstMet = MAX_ATTEMPTS
    /\ statusRequests = MAX_ATTEMPTS /\ ~warned

\* C3: the triggering POSTs go out in the order Init, Network, Monitoring,
\* Backups, each only after the polling loop of the phase before it has
\* terminated; Monitoring's and Backups' are sent only when enabled, and are
\* sent when enabled once the orchestrator has passed their step; at most
\* one request is outstanding at any time, and it belongs to the phase the
\* orchestrator is at.
PhasesSequential ==
    /\ \A i, j \in DOMAIN triggerLog :
          i < j => \E a, b \in DOMAIN Phases :
                      a < b /\ Phases[a] = triggerLog[i] /\ Phases[b] = triggerLog[j]
    /\ "network" \in Triggered => "init" \in pollingDone
    /\ "monitoring" \in Triggered =>
            "network" \in pollingDone /\ config.enable_monitoring
    /\ "backups" \in Triggered =>
            /\ "network" \in pollingDone
            /\ config.enable_monitoring => "monitoring" \in pollingDone
            /\ config.enable_backups
    /\ bphase \in {"backups", "end"} =>
            ("monitoring" \in Triggered <=> config.enable_monitoring)
    /\ bphase = "end" => ("backups" \in Triggered <=> config.enable_backups)
    /\ Cardinality(outstanding) <= 1
    /\ \A r \in outstanding : r.phase = bphase
    /\ \A p \in pollingDone : p \in Triggered

\* C3 witness: all four phases were triggered and the orchestrator
\* returned Ok.
PhasesSequentialWitness ==
    /\ bresult = "Ok"
    /\ triggerLog = <<"init", "network", "monitoring", "backups">>
    /\ pollingDone = {"init", "network", "monitoring", "backups"}

(***************************************************************************)
(* Properties of the deploy flow (SpecDeploy).                             *)
(***************************************************************************)
PolicyParsed == permReply.kind = "text" /\ permReply.json = "permissions"
PolicyFailed ==
    \/ permReply.kind \in {"transport_error", "body_error"}
    \/ permReply.kind = "text" /\ permReply.json = "garbage"

\* the walk indices of the directories and files, in walk order
ArchivableEntries(runs) ==
    SelectSeq([k \in 1..WalkLen(runs) |-> k],
              LAMBDA k : KindAt(runs, k) \in {"dir", "file"})

\* C4: when the flow aborts because the file count exceeds max_file_count,
\* no archive I/O has happened: the archive file was not created or
\* truncated, nothing was appended, and no upload was attempted.
QuotaCheckPrecedesArchiveIO ==
    cause = "quota_exceeded" =>
        /\ ~archiveExists
        /\ archive = <<>> /\ ~finished
        /\ uploadRequests = 0

\* C5: once the policy is parsed, the flow aborts with the "too many files"
\* message exactly when total_files > max_file_count (equal counts
\* proceed), and the message carries total_files - max_file_count,
\* total_files and max_file_count.
QuotaOverageExact ==
    /\ cause = "quota_exceeded" => PolicyParsed
    /\ PolicyParsed =>
          /\ cause = "quota_exceeded" <=> total_files > permReply.max_file_count
          /\ total_files > permReply.max_file_count =>
                /\ dpc = "done"
                /\ reported = <<total_files - permReply.max_file_count,
                                total_files, permReply.max_file_count>>
          /\ total_files <= permReply.max_file_count => reported = <<>>

\* C5 witness: the large project against the largest small quota.
QuotaOverageExactWitness ==
    /\ cause = "quota_exceeded"
    /\ total_files = LARGE_PROJECT_THRESHOLD + 1
    /\ reported = <<LARGE_PROJECT_THRESHOLD + 1 - MaxQuota,
                    LARGE_PROJECT_THRESHOLD + 1, MaxQuota>>

\* C6: an append is dispatched, an entry appended or an upload sent only
\* after a permissions reply was parsed into max_file_count with
\* total_files not above it; a transport failure, an unreadable body or an
\* unparsable body ends the command with nothing appended and no upload.
NoPermissiveDefault ==
    /\ (archive # <<>> \/ tasks # {} \/ finished \/ uploadRequests > 0) =>
            PolicyParsed /\ total_files <= permReply.max_file_count
    /\ PolicyFailed =>
            /\ dpc = "done" /\ dresult \in {"Err", "exit0"}
            /\ archive = <<>> /\ tasks = {} /\ ~finished
            /\ uploadRequests = 0

\* C6 witness: the permissions request failed in transport and the command
\* has ended.
NoPermissiveDefaultWitness ==
    permReply.kind = "transport_error" /\ dpc = "done" /\ total_files > 0

\* C7: a command that ended on a missing project root, an exceeded quota or
\* a failed policy fetch or parse ended with a failure indication (Err, or
\* a non-zero exit).
FatalErrorsFail ==
    cause \in {"missing_root", "quota_exceeded", "policy_fetch", "policy_body",
               "policy_parse"}
        => dresult \in {"Err", "exit_nonzero"}

\* C8: when the upload request was sent and upload_tarball returned an
\* error, the archive file is gone once the command has ended.
UploadFailureCleansUp ==
    (dpc = "done" /\ cause = "upload_failed" /\ uploadRequests > 0) => ~archiveExists

\* C9: an upload is sent only after create_tarball returned Ok, with every
\* directory and file of the walk appended and the builder finished; after
\* the first I/O error (read, append or finish) nothing more is appended,
\* create_tarball does not return Ok, and no upload is sent.
NoPartialUpload ==
    /\ uploadRequests > 0 =>
            /\ tarballResult = "Ok" /\ finished /\ ioFailedAt < 0
            /\ archive = ArchivableEntries(project.runs)
    /\ tarballResult = "Ok" => finished /\ ioFailedAt < 0
    /\ ioFailedAt >= 0 =>
            /\ Len(archive) = ioFailedAt
            /\ ~finished
            /\ uploadRequests = 0
            /\ dpc \in {"join", "done"}
            /\ dpc = "done" => tarballResult = "Err" /\ dresult = "Err"

\* C9 witness: the second append failed; the command has ended with a
\* one-entry archive on disk that was not uploaded.
NoPartialUploadWitness ==
    /\ dpc = "done" /\ ioFailedAt = 1 /\ Len(archive) = 1
    /\ archiveExists /\ idx = 2 /\ uploadRequests = 0

\* C10: at most one blocking task exists at any time; the lock is held
\* only by that task while it appends; the lock is free and no task exists
\* whenever the main loop is not awaiting a task (so whenever it dispatches
\* the next entry or the finish step); every change of the archive appends
\* the entry the walker is at, which lies after everything appended before;
\* and a finished archive holds the walk's directories and files in walk
\* order.
SingleWriterState ==
    /\ Cardinality(tasks) <= 1
    /\ lock # 0 => \E t \in tasks : t.id = lock /\ t.tpc = "locked"
    /\ \A t \in tasks : t.tpc = "locked" => lock = t.id
    /\ dpc # "join" => lock = 0 /\ tasks = {}
    /\ tarballResult = "Ok" => archive = ArchivableEntries(project.runs)
AppendsInWalkOrder ==
    archive' # archive =>
        /\ archive' = Append(archive, idx)
        /\ KindAt(project.runs, idx) \in {"dir", "file"}
        /\ archive # <<>> => archive[Len(archive)] < idx
        /\ lock = idx /\ lock' = 0
SingleWriter == []SingleWriterState /\ [][AppendsInWalkOrder]_vars

\* C10 witness: the second entry's task holds the lock while the first
\* entry is already in the archive.
SingleWriterWitness ==
    /\ dpc = "join" /\ lock = 2 /\ archive = <<1>>
    /\ \E t \in tasks : t.id = 2 /\ t.tpc = "locked"

(***************************************************************************)
(* Properties of the polling loops (SpecBoot, SpecWatch, SpecPolling,      *)
(* FairPolling).                                                           *)
(***************************************************************************)
\* a reply has just been handled by wait_for_process_completion
InWait == bphase \in {"network", "monitoring", "backups"} /\ wpc \in {"sleep", "exit"}

\* C11: in wait_for_process_completion, wait_for_service_restart and
\* wait_for_backup_completion a failed status request leaves the loop at
\* its sleep with the flag unset and nothing returned; every request, failed
\* or not, is one attempt; a loop that ended without its flag set used its
\* whole budget; and none of the three ever returns Err.
PollErrorsTransient ==
    /\ (InWait /\ handled.kind = "failed") =>
            wpc = "sleep" /\ ~complete /\ wresult = "none"
    /\ wpc # "idle" => statusRequests = attempts
    /\ (wpc \in {"exit", "returned"} /\ ~complete) => attempts = MAX_ATTEMPTS
    /\ wresult \in {"none", "Ok"}
    /\ khandled.kind = "failed" =>
            /\ kpc = "sleep" /\ kresult = "none" /\ cresult = "none"
            /\ ~service_restarted /\ ~backup_completed
    /\ command = "restart_service" =>
            /\ watchRequests = restart_attempts
            /\ (kpc \in {"exit", "returned"} /\ ~service_restarted) =>
                    restart_attempts = MAX_ATTEMPTS_RESTART
    /\ command = "trigger_backup" =>
            /\ watchRequests = backup_attempts
            /\ (kpc \in {"exit", "returned"} /\ ~backup_completed) =>
                    backup_attempts = MAX_ATTEMPTS_BACKUP
    /\ kresult \in {"none", "Ok"}
    /\ kpc # "idle" => cresult # "Err"

\* C11 witness: the backup watch's last attempt failed; the loop is at its
\* sleep, about to run out of budget.
PollErrorsTransientWitness ==
    /\ command = "trigger_backup" /\ khandled.kind = "failed"
    /\ backup_attempts = MAX_ATTEMPTS_BACKUP /\ kpc = "sleep"

\* C12: the requests issued by one run of a budgeted loop never exceed its
\* budget (120, 30, 60); a loop that returned returned Ok, converged or
\* with the timeout warning, never both; and every loop that was entered
\* returns.
WithinBudget ==
    /\ statusRequests <= MAX_ATTEMPTS /\ attempts <= MAX_ATTEMPTS
    /\ command = "restart_service" => watchRequests <= MAX_ATTEMPTS_RESTART
    /\ command = "trigger_backup" => watchRequests <= MAX_ATTEMPTS_BACKUP
    /\ wpc = "returned" => wresult = "Ok" /\ (warned <=> ~complete)
    /\ kpc = "returned" =>
            /\ kresult = "Ok"
            /\ kwarned <=> ~(service_restarted \/ backup_completed)
AttemptBudgets ==
    /\ []WithinBudget
    /\ (wpc = "loop") ~> (wpc = "returned")
    /\ (kpc = "loop") ~> (kpc = "returned")

\* C12 witness: the service-restart watch timed out after 30 requests.
AttemptBudgetsWitness ==
    /\ command = "restart_service" /\ kpc = "returned" /\ kwarned
    /\ watchRequests = MAX_ATTEMPTS_RESTART /\ kresult = "Ok"

\* C13: the Init status loop has ended exactly when one of its polls was
\* answered with top-level status "completed"; until then the loop is
\* where it sends the next request whenever it is at its head, whatever the
\* number of polls so far, and nothing after Init has been triggered; once
\* such an answer came, the loop sends no further request.
InitPollingUncapped ==
    /\ (all_complete \/ "init" \in pollingDone) <=> initCompletedSeen
    /\ ~initCompletedSeen =>
            /\ bphase \in {"none", "init"}
            /\ \A i \in DOMAIN triggerLog : triggerLog[i] = "init"
            /\ bresult # "Ok"
    /\ (bpc = "polling" /\ bphase = "init" /\ ipc = "loop") =>
            /\ ~initCompletedSeen => ENABLED InitPollSend
            /\ initCompletedSeen => ~ENABLED InitPollSend /\ ENABLED InitLoopExit

\* C13 witness: more than 120 Init polls, the last one failed, and the
\* loop goes on.
InitPollingUncappedWitness ==
    /\ initPolls > MAX_ATTEMPTS /\ ~all_complete /\ ipc = "sleep"
    /\ handled.kind = "failed" /\ triggerLog = <<"init">>

\* C14: wait_for_service_restart sets its flag at the first poll answered
\* with the named service "Running", having sent exactly that many requests
\* and slept once after each earlier one; an answer with the service
\* "Restarting", in another status, or not listed leaves the loop at its
\* sleep with the attempt used.
RestartWatchConverges ==
    command = "restart_service" =>
        /\ service_restarted <=> firstRunningAt > 0
        /\ firstRunningAt > 0 =>
                /\ kpc \in {"exit", "returned"}
                /\ firstRunningAt = restart_attempts
                /\ watchRequests = restart_attempts
                /\ delays = restart_attempts - 1
        /\ (khandled.kind = "ok" /\ khandled.shape # "Running") =>
                kpc = "sleep" /\ ~service_restarted
        /\ kpc = "sleep" => delays = restart_attempts - 1
        /\ restartingPolls <= restart_attempts

\* C14 witness: "Restarting" on five polls, "Running" on the sixth, five
\* sleeps in all.
RestartWatchConvergesWitness ==
    /\ command = "restart_service" /\ kpc = "returned" /\ service_restarted
    /\ restartingPolls = 5 /\ restart_attempts = 6 /\ delays = 5 /\ ~kwarned

\* C15: a poll of the Network phase converges exactly when its reply
\* carries a snapshot in which every host's current-step text says that
\* the network configuration is complete.
NetworkConvergesIffText ==
    (InWait /\ process_type = "network" /\ handled.kind # "idle") =>
        (complete <=> (handled.shape = "hosts" /\ handled.lacking = 0))

\* C16: on a poll of the Backups phase whose snapshot was parsed, the
\* phase converges exactly when every host listing a backup-manager
\* service lists one that is "Running"; hosts listing none do not count.
BackupsPredicate ==
    (InWait /\ process_type = "backups" /\ handled.shape = "hosts"
        /\ handled.top # "completed") =>
            /\ complete <=> handled.lacking = 0
            /\ complete => wpc = "exit"
            /\ handled.lacking <= handled.n - handled.excluded

\* C16 witness: two hosts, one without a backup-manager and one with it
\* running, and the phase converged.
BackupsPredicateWitness ==
    /\ InWait /\ process_type = "backups" /\ handled.top = "in_progress"
    /\ handled.n = 2 /\ handled.excluded = 1 /\ handled.lacking = 0
    /\ complete /\ wpc = "exit"

\* C17: on a poll of the Monitoring phase whose snapshot was parsed, the
\* phase converges exactly when every host lists a metrics-collector
\* service that is "Running"; otherwise the loop sleeps and polls again.
MonitoringPredicate ==
    (InWait /\ process_type = "monitoring" /\ handled.shape = "hosts"
        /\ handled.top # "completed") =>
            /\ complete <=> handled.lacking = 0
            /\ complete => wpc = "exit"
            /\ ~complete => wpc = "sleep"

\* C17 witness: one of two hosts lacks a running metrics-collector, and
\* the loop is at its sleep.
MonitoringPredicateWitness ==
    /\ InWait /\ process_type = "monitoring" /\ handled.top = "in_progress"
    /\ handled.n = 2 /\ handled.lacking = 1
    /\ ~complete /\ wpc = "sleep"

\* C18: status requests are issued only for phases whose triggering POST
\* was answered with success; once a triggering POST has failed the
\* orchestrator has returned Err, no status request was issued for that
\* phase, and it is the last request of the run.
FailedTriggerStops ==
    /\ polled \subseteq triggerOk
    /\ (bpc = "polling") => bphase \in triggerOk
    /\ triggerFailed # "none" =>
            /\ bpc = "done" /\ bresult = "Err"
            /\ triggerFailed \notin polled /\ triggerFailed \notin triggerOk
            /\ triggerLog # <<>> /\ triggerLog[Len(triggerLog)] = triggerFailed
            /\ outstanding = {}
            /\ polled \cup triggerOk =
                    {triggerLog[i] : i \in 1..(Len(triggerLog) - 1)}
    /\ bresult = "Err" => triggerFailed # "none"

\* C18 witness: the monitoring POST failed with backups enabled.
FailedTriggerStopsWitness ==
    /\ triggerFailed = "monitoring" /\ config.enable_backups
    /\ bpc = "done" /\ triggerLog = <<"init", "network", "monitoring">>

\* C19: a snapshot with a host in status "error" leaves the Init loop at
\* its sleep unless the top-level status is "completed", and leaves
\* wait_for_process_completion at its sleep unless the reply meets the
\* phase's completion check; the polling functions never return Err, and
\* the orchestrator returns Err only for a failed triggering POST.
HostErrorsNotTerminal ==
    /\ (bphase = "init" /\ handled.errorHost) =>
            \/ ipc = "sleep" /\ ~all_complete /\ bresult = "none"
            \/ handled.top = "completed"
    /\ (InWait /\ handled.errorHost) =>
            \/ wpc = "sleep" /\ ~complete /\ wresult = "none" /\ bresult = "none"
            \/ complete /\ firstMet = attempts
    /\ wresult \in {"none", "Ok"}
    /\ bresult = "Err" => triggerFailed # "none"

\* C19 witness: a two-host snapshot with a host in error during the
\* network phase, and the loop is at its sleep.
HostErrorsNotTerminalWitness ==
    /\ InWait /\ process_type = "network" /\ handled.errorHost /\ handled.n = 2
    /\ wpc = "sleep" /\ ~complete

\* C20: when a reply's data is present but is not a host list, the loop
\* body prints a warning.
ShapeMismatchWarns ==
    (handled.shape = "mismatch" /\ handled.top # "completed") => printed = "warning"

(***************************************************************************)
(* Properties of the archive gate, the archiving walk and the upload       *)
(* (SpecDeploy).                                                           *)
(***************************************************************************)
\* C21: with more than 5000 files counted and the quota check passed,
\* nothing is appended to the archive and no append is dispatched unless the
\* large-project prompt was answered yes; answering no, or Enter alone (the
\* default declines), ends the whole operation with nothing appended and no
\* upload; the prompt is shown only after the quota check passed; and with
\* 5000 files or fewer the prompt is never shown.
LargeProjectGate ==
    /\ (total_files > LARGE_PROJECT_THRESHOLD
            /\ (archive # <<>> \/ tasks # {} \/ finished \/ uploadRequests > 0))
          => largeAnswer = "yes"
    /\ largeAnswer \in {"no", "enter"} =>
          /\ dpc = "done" /\ dresult = "exit0"
          /\ archive = <<>> /\ tasks = {} /\ uploadRequests = 0
    /\ (dpc = "confirm_large" \/ largeAnswer # "none") =>
          /\ total_files > LARGE_PROJECT_THRESHOLD
          /\ PolicyParsed /\ total_files <= permReply.max_file_count
    /\ total_files <= LARGE_PROJECT_THRESHOLD =>
          (largeAnswer = "none" /\ dpc # "confirm_large")

\* C21 witness: 5001 files within the quota, and Enter alone at the prompt:
\* the operation was cancelled with nothing appended.
LargeProjectGateWitness ==
    /\ total_files = LARGE_PROJECT_THRESHOLD + 1
    /\ PolicyParsed /\ total_files <= permReply.max_file_count
    /\ largeAnswer = "enter" /\ dpc = "done" /\ cause = "declined"
    /\ archive = <<>> /\ uploadRequests = 0

\* a tree of exactly 5000 files was archived whole without the prompt
ThresholdTreeArchived ==
    /\ total_files = LARGE_PROJECT_THRESHOLD /\ tarballResult = "Ok"
    /\ Len(archive) = LARGE_PROJECT_THRESHOLD /\ largeAnswer = "none"

\* C22: once the upload POST was answered with a response, upload_tarball
\* returned Ok if and only if the status code is a success code (200..299),
\* and then the bar was finished; on any other code the bar was abandoned
\* and the error carries the status code and the body text, or the fallback
\* text when the body cannot be read; Ok is returned only on a response.
UploadOutcome ==
    /\ uploadReply.kind = "http" =>
          /\ uploadResult = "Ok" <=> uploadReply.code \in 200..299
          /\ uploadReply.code \in 200..299 =>
                (uploadBar = "finished" /\ uploadError = <<>>)
          /\ uploadReply.code \notin 200..299 =>
                /\ uploadResult = "Err" /\ dresult = "Err"
                /\ uploadBar = "abandoned"
                /\ uploadError =
                     <<uploadReply.code,
                       IF uploadReply.readable THEN uploadReply.body
                       ELSE "No error message">>
    /\ uploadResult = "Ok" => uploadReply.kind = "http"
    /\ uploadReply.kind = "transport_error" =>
          (uploadResult = "Err" /\ uploadError = <<>>)

\* C22 witness: the server answered 300 with a body that cannot be read.
UploadOutcomeWitness ==
    /\ uploadReply.kind = "http" /\ uploadReply.code = 300
    /\ ~uploadReply.readable
    /\ uploadResult = "Err" /\ uploadBar = "abandoned"
    /\ uploadError = <<300, "No error message">>

\* C23: at most one upload POST is ever sent; once upload_tarball returned
\* an error - the file could not be read, the transport failed, or the
\* status was not a success - the command has ended with that error, and no
\* POST is sent after a reply was received or an error returned.
UploadNeverRetriedState ==
    /\ uploadRequests <= 1
    /\ uploadResult = "Err" => (dpc = "done" /\ dresult = "Err")
    /\ (uploadReply.kind = "transport_error"
            \/ (uploadReply.kind = "http" /\ uploadReply.code \notin 200..299))
          => (uploadResult = "Err" /\ uploadRequests = 1)
UploadNeverRetried ==
    /\ []UploadNeverRetriedState
    /\ [][uploadRequests' # uploadRequests =>
            /\ uploadRequests = 0 /\ uploadRequests' = 1
            /\ uploadReply.kind = "none" /\ uploadResult = "none"]_vars

\* C23 witness: the transport failed on the one POST that was sent, and the
\* command ended with the error.
UploadNeverRetriedWitness ==
    /\ uploadReply.kind = "transport_error" /\ uploadRequests = 1
    /\ uploadResult = "Err" /\ dpc = "done" /\ dresult = "Err"

\* C24 as stated: the upload POST goes to the configured base address
\* followed by /apps/{name}/releases/{release_id}/upload.
UploadTargetFollowsConfig ==
    uploadRequests > 0 =>
        /\ uploadTarget.base = base_url
        /\ uploadTarget.path = "/apps/{name}/releases/{uuid_str}/upload"

(***************************************************************************)
(* Properties of the Init status block (SpecBoot).                         *)
(***************************************************************************)
\* C25: in the Init status loop, a render erases exactly as many lines as
\* the render before it printed, and nothing when it is the first; the block
\* it prints has one line per host plus 2, and that number is what the loop
\* then tracks in prev_lines, set anew by every render.
RenderEraseCount ==
    /\ (bphase = "init" /\ printed = "status_block") =>
          /\ erased = shownBefore
          /\ shown = handled.n + 2
          /\ prev_lines = shown
    /\ (bphase = "init" /\ shown = 0) => (erased = 0 /\ prev_lines = 0)
    /\ prev_lines = shown

\* C25 witness: a block of two hosts (4 lines) was on the screen, and the
\* next render, of an empty host list, erased 4 lines and printed 2.
RenderEraseCountWitness ==
    /\ bphase = "init" /\ printed = "status_block"
    /\ shownBefore = 4 /\ erased = 4 /\ shown = 2 /\ prev_lines = 2

\* C26: when create_tarball returned Ok, the entries appended are exactly
\* the directories and files the walk yields under the root, each once; the
\* root itself is never appended and no entry is appended twice, at any
\* point of the walk.
ArchivePathSet ==
    /\ tarballResult = "Ok" =>
          LET appended == {archive[i] : i \in DOMAIN archive} IN
            /\ appended = {k \in 1..WalkLen(project.runs) :
                              KindAt(project.runs, k) \in {"dir", "file"}}
            /\ Cardinality(appended) = Len(archive)
    /\ archive # <<>> =>
          /\ archive[Len(archive)] # 0
          /\ Len(archive) > 1 => archive[Len(archive) - 1] < archive[Len(archive)]

\* C26 witness: under the root, an entry that is neither file nor directory
\* and then a file; the finished archive holds the file alone.
ArchivePathSetWitness ==
    /\ tarballResult = "Ok"
    /\ project.runs = <<[kind |-> "other", n |-> 1], [kind |-> "file", n |-> 1]>>
    /\ archive = <<2>>

\* the regular files among the first m entries under the root
RECURSIVE FilesAmong(_, _)
FilesAmong(runs, m) ==
    IF runs = <<>> \/ m <= 0 THEN 0
    ELSE (IF Head(runs).kind = "file"
          THEN (IF m < Head(runs).n THEN m ELSE Head(runs).n) ELSE 0)
         + FilesAmong(Tail(runs), m - Head(runs).n)

\* C27: files_processed never decreases and changes only by one, right
\* after a file record was appended (never after a directory record); during
\* the walk it is the number of regular files among the entries already
\* passed; and when create_tarball returns Ok on the tree that was counted
\* it equals total_files, the length of the progress bar.
ProgressCountsFilesState ==
    /\ dpc \in {"walk", "join"} =>
          files_processed = FilesAmong(project.runs, idx - 1)
    /\ tarballResult = "Ok" =>
          /\ ~grown => files_processed = total_files
          /\ files_processed = FilesAmong(project.runs, WalkLen(project.runs))
    /\ files_processed <= Len(archive)
ProgressCountsFiles ==
    /\ []ProgressCountsFilesState
    /\ [][/\ files_processed' >= files_processed
          /\ files_processed' # files_processed =>
                /\ files_processed' = files_processed + 1
                /\ archive # <<>> /\ archive[Len(archive)] = idx
                /\ KindAt(project.runs, idx) = "file"
                /\ idx' = idx + 1]_vars

\* C27 witness: a directory and a file under the root: two records were
\* appended and the counter ended at 1, the number of files counted.
ProgressCountsFilesWitness ==
    /\ tarballResult = "Ok"
    /\ project.runs = <<[kind |-> "dir", n |-> 1], [kind |-> "file", n |-> 1]>>
    /\ ~grown /\ Len(archive) = 2 /\ files_processed = 1 /\ total_files = 1

\* C28: when the project path does not exist, or fs::canonicalize fails on
\* it, the flow has sent no permissions request, created no archive file,
\* appended nothing and sent no upload, and it ends there.
MissingRootFailsFast ==
    /\ ~project.exists =>
          /\ dpc \in {"start", "done"}
          /\ resolved = "none"
          /\ permRequests = 0 /\ ~archiveExists /\ archive = <<>>
          /\ uploadRequests = 0
    /\ resolved = "failed" =>
          /\ dpc = "done" /\ tarballResult = "Err"
          /\ permRequests = 0 /\ ~archiveExists /\ archive = <<>>
          /\ uploadRequests = 0

\* C28 witness: the path exists but cannot be resolved; the command ended
\* before the archive file and before any request.
MissingRootFailsFastWitness ==
    /\ project.exists /\ resolved = "failed"
    /\ dpc = "done" /\ dresult = "Err"
    /\ permRequests = 0 /\ ~archiveExists /\ uploadRequests = 0

\* the path does not exist and the command has ended
MissingRootEnded ==
    ~project.exists /\ dpc = "done" /\ cause = "missing_root" /\ permRequests = 0

(***************************************************************************)
(* Properties of the completion check (SpecBoot).                          *)
(***************************************************************************)
\* C29: in the network, monitoring and backups phases alike, a successful
\* poll whose top-level status is "completed" converges the phase at that
\* very attempt and prints the completion line, whatever the data is -
\* absent, of another shape, or a host list that does not meet the phase's
\* own condition. A phase whose polls all report "completed" therefore
\* converges on the first poll that succeeds.
TopLevelShortCircuits ==
    (InWait /\ handled.kind = "ok" /\ handled.top = "completed") =>
        /\ complete /\ wpc = "exit"
        /\ convergedAt = attempts
        /\ printed = "completed"

\* C29 witness: the first poll of the monitoring phase reports "completed"
\* with a host that lacks a running metrics-collector, and the phase
\* converged on it.
TopLevelShortCircuitsWitness ==
    /\ InWait /\ process_type = "monitoring"
    /\ handled.kind = "ok" /\ handled.top = "completed"
    /\ handled.shape = "hosts" /\ handled.lacking = 1
    /\ attempts = 1 /\ complete /\ convergedAt = 1

\* the same in the network and in the backups phase
TopLevelShortCircuitsNetwork ==
    /\ InWait /\ process_type = "network" /\ handled.top = "completed"
    /\ handled.lacking = 1 /\ complete
TopLevelShortCircuitsBackups ==
    /\ InWait /\ process_type = "backups" /\ handled.top = "completed"
    /\ handled.lacking = 1 /\ complete

\* C30: a successful poll with an empty host list converges the network
\* and the monitoring phase, and a host list in which no host lists a
\* backup-manager service converges the backups phase, at that attempt.
VacuousConvergence ==
    (InWait /\ handled.kind = "ok" /\ handled.shape = "hosts") =>
        /\ (process_type \in {"network", "monitoring"} /\ handled.n = 0) =>
              (complete /\ wpc = "exit" /\ convergedAt = attempts)
        /\ (process_type = "backups" /\ handled.excluded = handled.n) =>
              (complete /\ wpc = "exit" /\ convergedAt = attempts)

\* C30 witness: the backups phase converged on a snapshot of two hosts,
\* neither listing a backup-manager, under a top-level status that is not
\* "completed".
VacuousConvergenceWitness ==
    /\ InWait /\ process_type = "backups"
    /\ handled.kind = "ok" /\ handled.top = "in_progress"
    /\ handled.shape = "hosts" /\ handled.n = 2 /\ handled.excluded = 2
    /\ complete /\ wpc = "exit"

\* the network and the monitoring phase converged on an empty host list
VacuousConvergenceNetwork ==
    /\ InWait /\ process_type = "network" /\ handled.top = "in_progress"
    /\ handled.shape = "hosts" /\ handled.n = 0 /\ complete
VacuousConvergenceMonitoring ==
    /\ InWait /\ process_type = "monitoring" /\ handled.top = "in_progress"
    /\ handled.shape = "hosts" /\ handled.n = 0 /\ complete

(***************************************************************************)
(* Properties of the orchestrator after a timeout (SpecBoot).              *)
(***************************************************************************)
\* the phases bootstrap_orchestrator runs under the configuration
EnabledPhases ==
    {"init", "network"}
    \cup (IF config.enable_monitoring THEN {"monitoring"} ELSE {})
    \cup (IF config.enable_backups THEN {"backups"} ELSE {})

\* C31: a phase whose polling loop used up its budget is passed like one
\* that converged: its wait returned Ok, the orchestrator returns Err only
\* when a triggering POST failed, and once it is done without a failed
\* trigger it has triggered every enabled phase and returned Ok.
TimedOutPhaseContinues ==
    /\ \A p \in timedOut : p \in pollingDone /\ p \in Triggered
    /\ (timedOut # {} /\ wpc = "returned") => wresult = "Ok"
    /\ bresult = "Err" => triggerFailed # "none"
    /\ (bpc = "done" /\ triggerFailed = "none") =>
          /\ bresult = "Ok"
          /\ Triggered = EnabledPhases
    /\ (timedOut # {} /\ triggerFailed = "none"
            /\ bphase \in {"backups", "end"} /\ config.enable_monitoring)
          => "monitoring" \in Triggered
    /\ (timedOut # {} /\ triggerFailed = "none"
            /\ bphase = "end" /\ config.enable_backups)
          => "backups" \in Triggered

\* C31 witness: network, monitoring and backups all timed out, and the
\* orchestrator triggered all four phases and returned Ok.
TimedOutPhaseContinuesWitness ==
    /\ timedOut = {"network", "monitoring", "backups"}
    /\ triggerLog = <<"init", "network", "monitoring", "backups">>
    /\ bpc = "done" /\ bresult = "Ok"

(***************************************************************************)
(* Properties of the terminal under failed polls (SpecBoot).               *)
(***************************************************************************)
\* C32 as stated: every render of the Init status loop leaves on the screen
\* no line printed since the start of the status block before it: what it
\* erases is the block and everything printed below it.
StaleBlocksErased ==
    (bphase = "init" /\ printed = "status_block") => stale = 0

\* a failed poll printed its two lines below a block of two hosts, and the
\* next render erased 4 of the 6 lines
StaleBlockLeft ==
    /\ bphase = "init" /\ printed = "status_block"
    /\ shownBefore = 4 /\ erased = 4 /\ stale = 2

(***************************************************************************)
(* Properties of the progress bar (SpecRender).                            *)
(***************************************************************************)
\* C33 as stated: for every progress value of the u8 field, the bar of a
\* host that is not "completed" is drawn with progress / 10 filled cells and
\* 10 cells in all, and `10 - filled` does not go below zero.
ProgressBarTenCells ==
    (barpc = "rendered" /\ host_status # "completed") =>
        /\ bar.outcome = "drawn"
        /\ ~bar.underflow
        /\ bar.filled = progress \div 10
        /\ bar.filled + bar.empty = 10

\* what does hold: up to a progress of 109 the bar has 10 cells, and from
\* 110 on the rendering panics in either build
ProgressBarUpTo109 ==
    (barpc = "rendered" /\ host_status # "completed") =>
        /\ progress <= 109 =>
              (bar.outcome = "drawn" /\ bar.filled + bar.empty = 10)
        /\ progress >= 110 => bar.outcome = "panic"

(***************************************************************************)
(* Properties of the archive's place and of the tree between the walks     *)
(* (SpecDeploy).                                                           *)
(***************************************************************************)
Appended == {archive[i] : i \in DOMAIN archive}
\* regular files of the tree other than the archive file itself
OwnFiles == CountFiles(project.runs) - (IF archiveAt # 0 THEN 1 ELSE 0)

\* C34 as stated: the archive file that create_tarball creates is never
\* counted by the counting walk and never appended as an entry by the
\* archiving walk, wherever the project root is.
ArchiveNeverContainsItself ==
    /\ (archiveExists /\ dpc = "permissions" /\ ~grown) => total_files = OwnFiles
    /\ archiveAt \notin Appended

\* the archive was created in the project root, counted as a file of the
\* project and appended to itself
ArchiveContainsItself ==
    /\ archivePlace = "in_root" /\ archiveAt # 0
    /\ total_files = OwnFiles + 1
    /\ archiveAt \in Appended
    /\ tarballResult = "Ok"

\* what does hold: with the archive outside the root, or matched by an
\* ignore rule, neither walk meets it
ArchiveOutsideNotWalked ==
    archivePlace # "in_root" => (archiveAt = 0 /\ total_files <= CountFiles(project.runs))

\* file records in the archive: appended entries that are regular files
FileRecords == Cardinality({k \in Appended : KindAt(project.runs, k) = "file"})

\* C35 as stated: whenever create_tarball completes, the number of file
\* records appended is at most the max_file_count fetched for the build,
\* also when files were added between the two walks.
QuotaHoldsForArchive ==
    tarballResult = "Ok" => FileRecords <= max_file_count

\* a build that completed with more file records than the quota allows:
\* the count met the quota and a file was added before the archiving walk
QuotaExceededInArchive ==
    /\ tarballResult = "Ok" /\ grown
    /\ total_files = max_file_count
    /\ FileRecords = max_file_count + 1

\* what does hold: the quota bounds the count of the first walk, and
\* without a change of the tree between the walks also the file records
QuotaHoldsForCount ==
    tarballResult = "Ok" =>
        /\ total_files <= max_file_count
        /\ ~grown => FileRecords <= max_file_count

(***************************************************************************)
(* Properties of init_environment (SpecInitEnv).                           *)
(***************************************************************************)
\* a request of the bootstrap was sent: a triggering POST or a status poll
PlatformRequestSent ==
    \/ triggerLog # <<>> \/ outstanding # {}
    \/ polled # {} \/ initPolls > 0 \/ statusRequests > 0

NoHostsReturnsOk ==
    epc = "done" /\ ssh_hosts = <<>> /\ eresult = "Ok" /\ ~PlatformRequestSent
DeclinedReturnsOk ==
    epc = "done" /\ consent = "no" /\ eresult = "Ok" /\ ~PlatformRequestSent

(***************************************************************************)
(* Properties of trigger_backup's gate (SpecWatch).                        *)
(***************************************************************************)
\* C37: trigger_backup sends the /backups/trigger request and polls
\* /backups/status only when enable_backups is true; when it is false it
\* returns Ok having sent no request; and when the trigger request fails
\* it returns Err without polling.
BackupTriggerGated ==
    command = "trigger_backup" =>
        /\ (commandPosts > 0 \/ watchRequests > 0) => cfgRead = "backups_enabled"
        /\ watchRequests > 0 => (commandPosts = 1 /\ ~postFailed)
        /\ cfgRead = "backups_disabled" =>
              (cpc = "done" /\ cresult = "Ok" /\ commandPosts = 0 /\ watchRequests = 0)
        /\ postFailed =>
              (cpc = "done" /\ cresult = "Err" /\ watchRequests = 0 /\ kpc = "idle")

\* C37 witness: backups enabled, the trigger answered with success, the
\* status endpoint polled and the command returned
BackupTriggerGatedWitness ==
    /\ command = "trigger_backup" /\ cfgRead = "backups_enabled"
    /\ commandPosts = 1 /\ ~postFailed /\ watchRequests > 0
    /\ cpc = "done" /\ cresult = "Ok"

\* the two other ways out
BackupsDisabledReturned ==
    /\ command = "trigger_backup" /\ cfgRead = "backups_disabled"
    /\ cpc = "done" /\ cresult = "Ok" /\ commandPosts = 0
BackupTriggerFailed ==
    /\ command = "trigger_backup" /\ postFailed
    /\ cpc = "done" /\ cresult = "Err" /\ watchRequests = 0

(***************************************************************************)
(* Properties of ApiClient::request inside a polling loop (SpecBoot).      *)
(***************************************************************************)
\* C38: request returns Ok only for a reply with status 200, 201 or 202
\* whose body deserializes; any other status, 204 with a well-formed body
\* included, is an Err, which the polling loop handles as a poll error that
\* has used up an attempt.
SuccessStatuses ==
    wpc \in {"sleep", "exit"} =>
        /\ (printed = "error") <=> (handled.kind = "failed")
        /\ offStatus =>
              /\ printed = "error" /\ wpc = "sleep" /\ ~complete
              /\ attempts >= 1 /\ statusRequests = attempts

\* C38 witness: the last attempt of a phase's budget was spent on a
\* well-formed "completed" answer under 204
SuccessStatusesWitness ==
    /\ offStatus /\ wpc = "sleep" /\ printed = "error"
    /\ attempts = MAX_ATTEMPTS /\ ~complete /\ firstMet = 0

(***************************************************************************)
(* Properties of the settings store (SpecSettings).                        *)
(***************************************************************************)
\* one call of the settings store, judged on the state before and after
SettingsStep ==
    /\ (lastOp'.op = "set" /\ lastOp'.stored) =>
          /\ settings'[lastOp'.key] = "new"
          /\ \A k \in Keys \ {lastOp'.key} : settings'[k] = settings[k]
          /\ lastOp'.saveTried
          /\ (lastOp'.result = "Err") <=> (config_path = "none" \/ ~lastOp'.io)
          /\ lastOp'.result = "Err" => disk' = disk
    /\ lastOp'.op = "get" =>
          /\ lastOp'.stored => lastOp'.result = settings[lastOp'.key]
          /\ settings' = settings
    /\ lastOp'.op = "remove" =>
          /\ lastOp'.result = (settings[lastOp'.key] # "absent")
          /\ lastOp'.saveTried = (settings[lastOp'.key] # "absent")
          /\ settings'[lastOp'.key] = "absent"

\* a set_setting whose save failed, followed by a get_setting of its key
FailedSetThenGet ==
    /\ prevOp.op = "set" /\ prevOp.stored /\ prevOp.result = "Err"
    /\ lastOp.op = "get" /\ lastOp.stored /\ lastOp.key = prevOp.key

\* C39: set_setting inserts before it saves, so when the save fails (no
\* config path, or a write error) it returns Err with the new value in
\* memory, which get_setting then returns; remove_setting returns true
\* exactly when the key was present and tries a save only in that case.
SetNotAtomic ==
    /\ [](FailedSetThenGet => lastOp.result = "new")
    /\ [][SettingsStep]_vars

\* C39 witness: the save failed on a write error with a config path set,
\* the file still lacks the value and get_setting returns it
SetNotAtomicWitness ==
    /\ FailedSetThenGet /\ lastOp.result = "new"
    /\ config_path = "some" /\ ~prevOp.io
    /\ disk[lastOp.key] # "new"

\* a remove_setting of a key that was not there: false, and no save
RemoveAbsentKey ==
    /\ lastOp.op = "remove" /\ lastOp.result = FALSE /\ ~lastOp.saveTried
\* and of one that was: true, and a save was tried
RemovePresentKey ==
    /\ lastOp.op = "remove" /\ lastOp.result = TRUE /\ lastOp.saveTried

====
